---- MODULE Spec2Model ----
(***************************************************************************)
(* Model of the ERPL Testing Analysis App (EAA v0.1): the CdA calculator   *)
(* window (cda_calculator.py, CdACalculatorWindow) and its modal           *)
(* time-range selector (CdAPlotWindow).                                    *)
(*                                                                         *)
(* Conventions.  An optional Python value is a set with at most one        *)
(* element: None is {} and a value v is {v}.  A float array cell is the    *)
(* same, with NaN as {}.  Column names are sequences of one-character      *)
(* strings so that str.lower() and the substring test are computed.        *)
(* Floating-point numbers are modelled by integers (times, weights, click  *)
(* x-values) and by exact fractions <<numerator, denominator>> (rates).    *)
(***************************************************************************)
EXTENDS Integers, Sequences, FiniteSets, TLC

\* ------------------------------------------------------------------------
\* Bounds of the model
\* ------------------------------------------------------------------------

\* click x-values and sample times range over 0..MaxX
MaxX == 2
\* number of calculator operations (loads, column choices, selector
\* openings) in one run
MaxOps == 4
\* number of in-axes clicks between two Resets of one selector
MaxClicks == 4
\* number of rows of an enumerated table
MaxRows == 3
\* number of button presses on the calculator's panels and the venturi
\* window in one run
MaxPresses == 2

\* number of columns of the files whose header auto-detection reads
MaxCols == 3

\* largest number of valid samples handed to the plot's downsampling
MaxSamples == 4001

\* ------------------------------------------------------------------------
\* Optional values
\* ------------------------------------------------------------------------

None == {}

Some(v) == {v}

Val(o) == CHOOSE v \in o : TRUE

\* ------------------------------------------------------------------------
\* Column names
\* ------------------------------------------------------------------------

Empty == << >>

\* str.lower() on the letters that occur in the column names of the model
LowerChar(c) ==
    CASE c = "T" -> "t"
      [] c = "P" -> "p"
      [] c = "W" -> "w"
      [] c = "M" -> "m"
      [] c = "N" -> "n"
      [] OTHER -> c

Lower(s) == [i \in 1..Len(s) |-> LowerChar(s[i])]

\* Python's `sub in s` on strings
Contains(sub, s) ==
    \E i \in 0..(Len(s) - Len(sub)) : SubSeq(s, i + 1, i + Len(sub)) = sub

kw_time == <<"t", "i", "m", "e">>
kw_t == <<"t">>
kw_pressure == <<"p", "r", "e", "s", "s", "u", "r", "e">>
kw_press == <<"p", "r", "e", "s", "s">>
kw_weight == <<"w", "e", "i", "g", "h", "t">>
kw_mass == <<"m", "a", "s", "s">>

IsTimeName(col) == Contains(kw_time, Lower(col)) \/ Lower(col) = kw_t

IsPressureName(col) ==
    Contains(kw_pressure, Lower(col)) \/ Contains(kw_press, Lower(col))

IsWeightName(col) ==
    Contains(kw_weight, Lower(col)) \/ Contains(kw_mass, Lower(col))

\* ------------------------------------------------------------------------
\* Tables (pandas DataFrame read from a CSV file)
\* ------------------------------------------------------------------------

\* A cell of the file: a number, a timestamp text, or any other text
\* (also an empty cell).
Num(n) == [k |-> "num", v |-> n]

Ts(n) == [k |-> "ts", v |-> n]

Text == [k |-> "text", v |-> 0]

\* pd.to_numeric(..., errors='coerce') on one cell
ToNumeric(cell) == IF cell.k = "num" THEN Some(cell.v) ELSE None

\* pd.to_datetime(..., errors='coerce') on one cell of a column that holds
\* no number: seconds of the timestamp, or NaT
ToDatetime(cell) == IF cell.k = "ts" THEN Some(cell.v) ELSE None

HasColumn(table, name) == \E i \in 1..Len(table.columns) : table.columns[i] = name

ColumnIndex(table, name) ==
    CHOOSE i \in 1..Len(table.columns) : table.columns[i] = name

\* df[name] for a name that is a column of df
Column(table, name) ==
    [r \in 1..Len(table.rows) |-> table.rows[r][ColumnIndex(table, name)]]

n_Time == <<"T", "i", "m", "e">>
n_Pressure == <<"P", "r", "e", "s", "s", "u", "r", "e">>
n_Weight == <<"W", "e", "i", "g", "h", "t">>
n_t == <<"t">>
n_press == <<"p", "r", "e", "s", "s">>
n_mass == <<"m", "a", "s", "s">>

\* numeric time, one row without pressure, weight falling by 1 per second
FileA ==
    [columns |-> <<n_Time, n_Pressure, n_Weight>>,
     rows |-> << <<Num(0), Num(1), Num(2)>>,
                 <<Num(1), Text, Num(1)>>,
                 <<Num(2), Num(1), Num(0)>> >>]

\* other column names, timestamps in the time column, no monotone weight
FileB ==
    [columns |-> <<n_t, n_press, n_mass>>,
     rows |-> << <<Ts(1), Num(1), Num(0)>>,
                 <<Ts(0), Num(1), Text>>,
                 <<Ts(2), Num(1), Num(1)>> >>]

Files == {FileA, FileB}

\* ------------------------------------------------------------------------
\* Arithmetic helpers
\* ------------------------------------------------------------------------

Abs(n) == IF n < 0 THEN -n ELSE n

RECURSIVE GCD(_, _)
GCD(a, b) == IF b = 0 THEN a ELSE GCD(b, a % b)

\* the fraction n/d (d # 0) in lowest terms with a positive denominator
Fraction(n, d) ==
    LET g == GCD(Abs(n), Abs(d))
        s == IF d < 0 THEN -1 ELSE 1
    IN  <<(s * n) \div g, (s * d) \div g>>

\* float('nan') as a rate
NaN == <<0, 0>>

RECURSIVE SumOver(_, _)
SumOver(I, f) ==
    IF I = {} THEN 0
    ELSE LET i == CHOOSE j \in I : TRUE IN f[i] + SumOver(I \ {i}, f)

\* LBS_TO_KG = 0.453592 as a fraction
LBS_TO_KG == <<453592, 1000000>>

\* PSI_TO_PA = 6894.76 as a fraction
PSI_TO_PA == <<172369, 25>>

\* ------------------------------------------------------------------------
\* Floats of the formula evaluators
\* ------------------------------------------------------------------------

\* A float is a fraction <<n, d>> in lowest terms (d > 0), NaN, the
\* irrational quotient num / sqrt(rad) written <<"quot", num, rad>> (num a
\* non-zero fraction, rad a positive fraction that is no square), or such a
\* quotient rounded to dec decimal places, <<"rounded", num, rad, dec>>.
\* The three shapes differ in length.
IsFrac(x) == Len(x) = 2 /\ x # NaN

IsQuot(x) == Len(x) = 3

IsRounded(x) == Len(x) = 4

Zero == <<0, 1>>

\* a <= b and a < b on fractions and NaN: a comparison with NaN is false
FLe(a, b) == a # NaN /\ b # NaN /\ a[1] * b[2] <= b[1] * a[2]

FLt(a, b) == a # NaN /\ b # NaN /\ a[1] * b[2] < b[1] * a[2]

FMul(a, b) ==
    IF a = NaN \/ b = NaN THEN NaN
    ELSE LET g1 == GCD(Abs(a[1]), b[2])
             g2 == GCD(Abs(b[1]), a[2])
             h1 == IF g1 = 0 THEN 1 ELSE g1
             h2 == IF g2 = 0 THEN 1 ELSE g2
         IN  Fraction((a[1] \div h1) * (b[1] \div h2),
                      (a[2] \div h2) * (b[2] \div h1))

FSub(a, b) ==
    IF a = NaN \/ b = NaN THEN NaN
    ELSE Fraction(a[1] * b[2] - b[1] * a[2], a[2] * b[2])

FAdd(a, b) ==
    IF a = NaN \/ b = NaN THEN NaN
    ELSE Fraction(a[1] * b[2] + b[1] * a[2], a[2] * b[2])

\* a / b for a fraction b # 0
FDiv(a, b) ==
    IF a = NaN \/ b = NaN THEN NaN
    ELSE FMul(a, IF b[1] < 0 THEN <<-b[2], -b[1]>> ELSE <<b[2], b[1]>>)

\* A finite float beyond the square root of the float range, such as 1e200:
\* it compares above every fraction, stays Huge when multiplied or divided
\* by a positive fraction, and x ** 2 raises OverflowError on it.
Huge == <<1, 0>>

\* x <= 0 for any float of the model; a quotient has the sign of its
\* numerator, and so has a rounded quotient (the quotients of the model
\* are larger in magnitude than half a unit of the last decimal place)
NonPositive(x) ==
    IF Len(x) = 2 THEN FLe(x, Zero) ELSE x[2][1] < 0

\* num / np.sqrt(rad) for a positive rad
Quot(num, rad) ==
    IF num = NaN \/ rad = NaN THEN NaN
    ELSE IF num[1] = 0 THEN Zero
    ELSE <<"quot", num, rad>>

RECURSIVE Pow10(_)
Pow10(k) == IF k = 0 THEN 1 ELSE 10 * Pow10(k - 1)

\* a fraction rounded to dec decimal places (dec <= 4), ties away from zero
RoundFrac(x, dec) ==
    LET scaled == Abs(x[1]) * Pow10(dec)
        q == scaled \div x[2]
        r == scaled % x[2]
        up == IF 2 * r >= x[2] THEN q + 1 ELSE q
        sign == IF x[1] < 0 THEN -1 ELSE 1
    IN  Fraction(sign * up, Pow10(dec))

RECURSIVE StripFactor(_, _, _)
\* d without its factors p, at most k of them
StripFactor(d, p, k) ==
    IF k = 0 \/ d % p # 0 THEN d ELSE StripFactor(d \div p, p, k - 1)

\* a fraction that has at most dec decimal places
Representable(x, dec) == StripFactor(StripFactor(x[2], 2, dec), 5, dec) = 1

\* float(f"{x:.{dec}f}"): the float a fixed-point formatting of x reads
\* back as
Rounded(x, dec) ==
    IF x = NaN THEN NaN
    ELSE IF Len(x) = 2
         THEN IF Representable(x, dec) THEN x ELSE RoundFrac(x, dec)
    ELSE IF Len(x) = 3 THEN <<"rounded", x[2], x[3], dec>>
    ELSE x

\* The text of an entry field or label: a string that float() rejects, or
\* a string that float() reads as the float v.
Str(s) == [k |-> "str", v |-> <<s>>]

NumText(x) == [k |-> "float", v |-> x]

\* f"{x:.{dec}f}"
Format(x, dec) == NumText(Rounded(x, dec))

\* float(text): None stands for ValueError
ParseFloat(text) == IF text.k = "float" THEN Some(text.v) ELSE None

\* ------------------------------------------------------------------------
\* Time column parsing
\* ------------------------------------------------------------------------

\* the selector's parse counting the seconds from the timestamp of the
\* first row that holds one
BadParseTimeColumn(col) ==
    LET numeric == [i \in DOMAIN col |-> ToNumeric(col[i])]
        dt == [i \in DOMAIN col |-> ToDatetime(col[i])]
        rows == {j \in DOMAIN col : dt[j] # None}
        first == Val(dt[CHOOSE j \in rows : \A k \in rows : j <= k])
    IN  IF \A i \in DOMAIN col : numeric[i] = None
        THEN IF \A i \in DOMAIN col : dt[i] = None
             THEN None
             ELSE Some([i \in DOMAIN col |->
                          IF dt[i] = None THEN None ELSE Some(Val(dt[i]) - first)])
        ELSE Some(numeric)

\* The numeric time array of a column, or None when neither parse yields a
\* value: pd.to_numeric first; if every entry is NaN, pd.to_datetime and
\* seconds elapsed since the smallest timestamp.
ParseTimeColumn(col) ==
    LET numeric == [i \in DOMAIN col |-> ToNumeric(col[i])]
        dt == [i \in DOMAIN col |-> ToDatetime(col[i])]
        stamps == {Val(dt[i]) : i \in {j \in DOMAIN col : dt[j] # None}}
        first == CHOOSE m \in stamps : \A o \in stamps : m <= o
    IN  IF \A i \in DOMAIN col : numeric[i] = None
        THEN IF \A i \in DOMAIN col : dt[i] = None
             THEN None
             ELSE Some([i \in DOMAIN col |->
                          IF dt[i] = None THEN None ELSE Some(Val(dt[i]) - first)])
        ELSE Some(numeric)

\* _prepare_plot_data storing the time array after the rows without a
\* time or a pressure have been removed from it
BadPreparePlotData(table, tcol, pcol, wcol) ==
    LET failed(stored) == [ok |-> FALSE, stored |-> stored, points |-> 0]
    IN  IF ~HasColumn(table, tcol) THEN failed(None)
        ELSE LET parsed == ParseTimeColumn(Column(table, tcol)) IN
        IF parsed = None THEN failed(None)
        ELSE IF ~HasColumn(table, pcol) THEN failed(None)
        ELSE LET time_data == Val(parsed)
                 pressure_data == [i \in DOMAIN time_data |->
                                     ToNumeric(Column(table, pcol)[i])]
                 valid_mask == {i \in DOMAIN time_data :
                                  time_data[i] # None /\ pressure_data[i] # None}
                 kept == Some([i \in DOMAIN time_data |->
                                 IF i \in valid_mask THEN time_data[i] ELSE None])
        IN  IF valid_mask = {} THEN failed(kept)
            ELSE IF wcol # Empty /\ ~HasColumn(table, wcol) THEN failed(kept)
            ELSE [ok |-> TRUE, stored |-> kept, points |-> Cardinality(valid_mask)]

\* CdAPlotWindow._prepare_plot_data: ok is FALSE when it raises; stored is
\* what self.time_data_numeric holds afterwards (it is assigned before the
\* later checks can raise); points is the number of rows left for plotting.
PreparePlotData(table, tcol, pcol, wcol) ==
    LET failed(stored) == [ok |-> FALSE, stored |-> stored, points |-> 0]
    IN  IF ~HasColumn(table, tcol) THEN failed(None)
        ELSE LET parsed == ParseTimeColumn(Column(table, tcol)) IN
        IF parsed = None THEN failed(None)
        ELSE IF ~HasColumn(table, pcol) THEN failed(None)
        ELSE LET time_data == Val(parsed)
                 pressure_data == [i \in DOMAIN time_data |->
                                     ToNumeric(Column(table, pcol)[i])]
                 valid_mask == {i \in DOMAIN time_data :
                                  time_data[i] # None /\ pressure_data[i] # None}
        IN  IF valid_mask = {} THEN failed(parsed)
            ELSE IF wcol # Empty /\ ~HasColumn(table, wcol) THEN failed(parsed)
            ELSE [ok |-> TRUE, stored |-> parsed, points |-> Cardinality(valid_mask)]

\* ------------------------------------------------------------------------
\* Derived rate
\* ------------------------------------------------------------------------

\* np.polyfit(t, w, 1)[0] over the rows I, times LBS_TO_KG and negated: the
\* set of values the call can produce.  With all times equal the fit is rank
\* deficient and the least-squares routine returns the minimum-norm
\* solution, slope = mean(w) / (2 t); with all times equal to 0 the column
\* scaling divides 0 by 0 and the routine either raises (the caller then
\* returns None) or returns NaN, depending on the LAPACK build.
BadMdotFromFit(I, t, w) ==
    LET n == Cardinality(I)
        St == SumOver(I, t)
        Sw == SumOver(I, w)
        Stw == SumOver(I, [i \in I |-> t[i] * w[i]])
        Stt == SumOver(I, [i \in I |-> t[i] * t[i]])
        den == n * Stt - St * St
        num == n * Stw - St * Sw
    IN  IF den # 0 THEN {Some(Fraction(num * LBS_TO_KG[1], den * LBS_TO_KG[2]))}
        ELSE IF St # 0
             THEN {Some(Fraction(-(Sw * LBS_TO_KG[1]), 2 * St * LBS_TO_KG[2]))}
             ELSE {None, Some(NaN)}

MdotFromFit(I, t, w) ==
    LET n == Cardinality(I)
        St == SumOver(I, t)
        Sw == SumOver(I, w)
        Stw == SumOver(I, [i \in I |-> t[i] * w[i]])
        Stt == SumOver(I, [i \in I |-> t[i] * t[i]])
        den == n * Stt - St * St
        num == n * Stw - St * Sw
    IN  IF den # 0 THEN {Some(Fraction(-(num * LBS_TO_KG[1]), den * LBS_TO_KG[2]))}
        ELSE IF St # 0
             THEN {Some(Fraction(-(Sw * LBS_TO_KG[1]), 2 * St * LBS_TO_KG[2]))}
             ELSE {None, Some(NaN)}

\* the rows of the window: mask = (time >= start) & (time <= end)
WindowMask(time_data, start, end) ==
    {i \in DOMAIN time_data :
        time_data[i] # None /\ Val(time_data[i]) >= start /\ Val(time_data[i]) <= end}

\* _calculate_mdot without the second length check, after the NaN removal
BadCalculateMdot(w) ==
    IF w.start_time = None \/ w.end_time = None THEN {None}
    ELSE IF w.weight_col = Empty THEN {None}
    ELSE IF w.time_data_numeric = None THEN {None}
    ELSE IF ~HasColumn(w.df, w.weight_col) THEN {None}
    ELSE LET time_data == Val(w.time_data_numeric)
             weight_data == [i \in DOMAIN time_data |->
                               ToNumeric(Column(w.df, w.weight_col)[i])]
             mask == WindowMask(time_data, Val(w.start_time), Val(w.end_time))
             valid == {i \in mask : weight_data[i] # None}
         IN  IF Cardinality(mask) < 2 THEN {None}
             ELSE MdotFromFit(valid,
                              [i \in valid |-> Val(time_data[i])],
                              [i \in valid |-> Val(weight_data[i])])

\* CdAPlotWindow._calculate_mdot on a selector w: the set of values it can
\* return (one value, except for the degenerate fit above).
CalculateMdot(w) ==
    IF w.start_time = None \/ w.end_time = None THEN {None}
    ELSE IF w.weight_col = Empty THEN {None}
    ELSE IF w.time_data_numeric = None THEN {None}
    ELSE IF ~HasColumn(w.df, w.weight_col) THEN {None}
    ELSE LET time_data == Val(w.time_data_numeric)
             weight_data == [i \in DOMAIN time_data |->
                               ToNumeric(Column(w.df, w.weight_col)[i])]
             mask == WindowMask(time_data, Val(w.start_time), Val(w.end_time))
             valid == {i \in mask : weight_data[i] # None}
         IN  IF Cardinality(mask) < 2 THEN {None}
             ELSE IF Cardinality(valid) < 2 THEN {None}
             ELSE MdotFromFit(valid,
                              [i \in valid |-> Val(time_data[i])],
                              [i \in valid |-> Val(weight_data[i])])

\* ------------------------------------------------------------------------
\* State
\* ------------------------------------------------------------------------

VARIABLES
    \* CdACalculatorWindow
    df, time_combo, pressure_combo, weight_combo,
    time_col, pressure_col, weight_col,
    start_time, end_time, calculated_mdot, labels,
    \* the CdAPlotWindow last constructed
    pw,
    \* pyplot's open figures, connected click handlers, Tk's input grab
    figs, handlers, grab,
    \* history: selectors constructed, in-axes clicks since the last Reset,
    \* the last operation, callbacks delivered by the current selector, the
    \* last callback's arguments, the calculator's window when the current
    \* selector was opened
    opens, nclicks, last_op, callbacks, emitted, at_open,
    \* calculator operations so far
    ops,
    \* the messagebox the last operation showed (None: it showed none)
    msgbox,
    \* CdACalculatorWindow: the stored CdA, the entry fields and the result
    \* labels of the CdA panel and of the set-pressure panel, and the modal
    \* "Select P_low Column" dialog
    calculated_cda, p_high_var, p_low_var, rho_var,
    setpoint_cda_var, setpoint_mdot_var, setpoint_rho_var, manifold_p_var,
    result_label, result_units, setpoint_result_label, setpoint_result_pa,
    dialog,
    \* the analyzer's context (app.ctx), the VenturiMdotWindow last
    \* constructed and the figure it shows
    ctx, vw,
    \* ERPLLauncher: the page shown, the launcher window's state, the tool
    \* windows constructed so far, and how many were ever constructed
    current_page, launcher_state, child_windows, created,
    \* one application of _calculate_mdot to an enumerated selector
    probe

calc_vars ==
    <<df, time_combo, pressure_combo, weight_combo, time_col, pressure_col,
      weight_col, start_time, end_time, calculated_mdot, labels>>

env_vars == <<figs, handlers, grab>>

sel_hist == <<opens, nclicks, callbacks, emitted, at_open>>

hist_vars == <<sel_hist, ops>>

entry_vars ==
    <<p_high_var, p_low_var, rho_var, setpoint_cda_var, setpoint_mdot_var,
      setpoint_rho_var, manifold_p_var>>

result_vars ==
    <<calculated_cda, result_label, result_units, setpoint_result_label,
      setpoint_result_pa>>

eval_vars == <<entry_vars, result_vars, dialog>>

ven_vars == <<ctx, vw>>

nav_vars == <<current_page, launcher_state, child_windows, created>>

vars ==
    <<calc_vars, pw, env_vars, hist_vars, last_op, msgbox, probe, eval_vars,
      ven_vars, nav_vars>>

X == 0..MaxX

EmptyTable == [columns |-> << >>, rows |-> << >>]

\* no selector has been constructed yet
NoWindow ==
    [win |-> "none", id |-> 0, df |-> EmptyTable,
     time_col |-> Empty, pressure_col |-> Empty, weight_col |-> Empty,
     start_time |-> None, end_time |-> None, click_count |-> 0,
     cid |-> None, fig |-> None, ax2 |-> FALSE, canvas |-> FALSE,
     time_data_numeric |-> None,
     start_line |-> None, end_line |-> None,
     start_line2 |-> None, end_line2 |-> None,
     start_label |-> None, end_label |-> None,
     confirm_btn |-> "disabled"]

NoEmit == [start |-> None, end |-> None, mdot |-> None, win |-> "none", n |-> 0]

\* CdACalculatorWindow.__init__
InitCalculator ==
    /\ df = None
    /\ time_combo = Empty /\ pressure_combo = Empty /\ weight_combo = Empty
    /\ time_col = None /\ pressure_col = None /\ weight_col = None
    /\ start_time = None /\ end_time = None /\ calculated_mdot = None
    /\ labels = [file |-> None, start_time |-> None, end_time |-> None,
                 mdot |-> "--"]

InitEnv == figs = {} /\ handlers = {} /\ grab = None

\* the tools whose windows launcher.py and cda_calculator.py construct
\* (HotfireAnalyzerAppWrapper.__init__ imports context, handlers and
\* instructions, and is opened, hidden and re-shown like these two)
Tools == {"cda", "draco"}

\* ERPLLauncher.__init__
InitLauncher ==
    /\ current_page = "launcher"
    /\ launcher_state = "normal"
    /\ child_windows = << >>
    /\ created = 0

InitHist ==
    /\ opens = 0 /\ nclicks = 0 /\ callbacks = 0
    /\ emitted = NoEmit
    /\ at_open = <<None, None, None>>
    /\ ops = 0

\* no "Select P_low Column" dialog is open
NoDialog == [open |-> FALSE, col_var |-> Empty]

\* CdACalculatorWindow.__init__ and _build_ui: the StringVars and labels of
\* the two panels
InitPanels ==
    /\ calculated_cda = None
    /\ p_high_var = Str("")
    /\ p_low_var = NumText(<<147, 10>>)
    /\ rho_var = NumText(<<1000, 1>>)
    /\ setpoint_cda_var = Str("")
    /\ setpoint_mdot_var = Str("")
    /\ setpoint_rho_var = NumText(<<1000, 1>>)
    /\ manifold_p_var = NumText(<<500, 1>>)
    /\ result_label = None
    /\ result_units = None
    /\ setpoint_result_label = None
    /\ setpoint_result_pa = None
    /\ dialog = NoDialog

\* the analyzer before a file is loaded
NoCtx == [df |-> None, time_col |-> None]

\* no VenturiMdotWindow has been constructed
NoVenturi ==
    [win |-> "none", p1_col_var |-> Empty, p2_col_var |-> Empty,
     a1_var |-> Str(""), a2_var |-> Str(""), cd_var |-> Str(""),
     y_var |-> Str(""), rho_var |-> Str(""),
     plot |-> None, result_label |-> None, plots |-> 0]

InitVenturi == ctx = NoCtx /\ vw = NoVenturi

NoProbe == [w |-> NoWindow, done |-> FALSE, out |-> None]

Init ==
    /\ InitCalculator
    /\ pw = NoWindow
    /\ InitEnv
    /\ InitHist /\ InitLauncher
    /\ last_op = <<"init">>
    /\ msgbox = None
    /\ probe = NoProbe
    /\ InitPanels
    /\ InitVenturi

\* the selector is modal: while it holds the grab the calculator window
\* receives no input
CalculatorAcceptsInput == grab = None

\* ------------------------------------------------------------------------
\* CdACalculatorWindow: loading a file and choosing columns
\* ------------------------------------------------------------------------

\* the column selection _autodetect_columns reads and writes
Selection ==
    [time_combo |-> time_combo, time_col |-> time_col,
     pressure_combo |-> pressure_combo, pressure_col |-> pressure_col,
     weight_combo |-> weight_combo, weight_col |-> weight_col]

\* the loop body of _autodetect_columns with the pressure selection
\* overwritten by every matching column
BadAutodetectStep(cs, col) ==
    IF IsTimeName(col)
    THEN [cs EXCEPT !.time_combo = col, !.time_col = Some(col)]
    ELSE IF IsPressureName(col)
    THEN [cs EXCEPT !.pressure_combo = col, !.pressure_col = Some(col)]
    ELSE IF IsWeightName(col)
    THEN IF cs.weight_combo = Empty
         THEN [cs EXCEPT !.weight_combo = col, !.weight_col = Some(col)]
         ELSE cs
    ELSE cs

\* one iteration of the loop of _autodetect_columns
AutodetectStep(cs, col) ==
    IF IsTimeName(col)
    THEN [cs EXCEPT !.time_combo = col, !.time_col = Some(col)]
    ELSE IF IsPressureName(col)
    THEN IF cs.pressure_combo = Empty
         THEN [cs EXCEPT !.pressure_combo = col, !.pressure_col = Some(col)]
         ELSE cs
    ELSE IF IsWeightName(col)
    THEN IF cs.weight_combo = Empty
         THEN [cs EXCEPT !.weight_combo = col, !.weight_col = Some(col)]
         ELSE cs
    ELSE cs

RECURSIVE AutodetectFrom(_, _, _)
AutodetectFrom(cs, columns, i) ==
    IF i > Len(columns) THEN cs
    ELSE AutodetectFrom(AutodetectStep(cs, columns[i]), columns, i + 1)

\* CdACalculatorWindow._autodetect_columns
AutodetectColumns(cs, columns) == AutodetectFrom(cs, columns, 1)

\* _load_csv with a file chosen and read
LoadCsv(file) ==
    /\ CalculatorAcceptsInput
    /\ df' = Some(file)
    /\ LET cs == AutodetectColumns(Selection, file.columns)
       IN  /\ time_combo' = cs.time_combo
           /\ time_col' = cs.time_col
           /\ pressure_combo' = cs.pressure_combo
           /\ pressure_col' = cs.pressure_col
           /\ weight_combo' = cs.weight_combo
           /\ weight_col' = cs.weight_col
    /\ labels' = [labels EXCEPT !.file = Some(file.columns)]
    /\ last_op' = <<"load">>
    /\ msgbox' = None
    /\ ops < MaxOps
    /\ ops' = ops + 1
    /\ UNCHANGED <<start_time, end_time, calculated_mdot, pw, env_vars,
                   opens, nclicks, callbacks, emitted, at_open>>

\* _load_csv with the file dialog cancelled, or with pd.read_csv raising
LoadCsvAborted ==
    /\ CalculatorAcceptsInput
    /\ last_op' = <<"load_aborted">>
    /\ msgbox' \in {None, Some("Failed to load CSV")}
    /\ UNCHANGED <<calc_vars, pw, env_vars, hist_vars>>

\* the values a readonly combobox offers: the columns of the loaded file
ComboValues == IF df = None THEN {} ELSE {Val(df).columns[i] : i \in 1..Len(Val(df).columns)}

\* <<ComboboxSelected>> on the time combobox, then _on_time_col_changed
SelectTimeCol(col) ==
    /\ CalculatorAcceptsInput
    /\ col \in ComboValues
    /\ time_combo' = col
    /\ time_col' = Some(col)
    /\ last_op' = <<"select_col">>
    /\ msgbox' = None
    /\ ops < MaxOps
    /\ ops' = ops + 1
    /\ UNCHANGED <<df, pressure_combo, weight_combo, pressure_col, weight_col,
                   start_time, end_time, calculated_mdot, labels,
                   pw, env_vars, opens, nclicks, callbacks, emitted, at_open>>

\* <<ComboboxSelected>> on the pressure combobox, then _on_pressure_col_changed
SelectPressureCol(col) ==
    /\ CalculatorAcceptsInput
    /\ col \in ComboValues
    /\ pressure_combo' = col
    /\ pressure_col' = Some(col)
    /\ last_op' = <<"select_col">>
    /\ msgbox' = None
    /\ ops < MaxOps
    /\ ops' = ops + 1
    /\ UNCHANGED <<df, time_combo, weight_combo, time_col, weight_col,
                   start_time, end_time, calculated_mdot, labels,
                   pw, env_vars, opens, nclicks, callbacks, emitted, at_open>>

\* <<ComboboxSelected>> on the weight combobox, then _on_weight_col_changed
SelectWeightCol(col) ==
    /\ CalculatorAcceptsInput
    /\ col \in ComboValues
    /\ weight_combo' = col
    /\ weight_col' = Some(col)
    /\ last_op' = <<"select_col">>
    /\ msgbox' = None
    /\ ops < MaxOps
    /\ ops' = ops + 1
    /\ UNCHANGED <<df, time_combo, pressure_combo, time_col, pressure_col,
                   start_time, end_time, calculated_mdot, labels,
                   pw, env_vars, opens, nclicks, callbacks, emitted, at_open>>

\* ------------------------------------------------------------------------
\* CdAPlotWindow: construction and cleanup
\* ------------------------------------------------------------------------

\* a cleanup that destroys the window without plt.close(self.fig)
BadCleanupAndClose(e) ==
    LET connected == e.w.cid # None /\ e.w.fig # None
    IN  [w |-> [e.w EXCEPT !.cid = IF connected THEN None ELSE @,
                           !.fig = None,
                           !.win = "destroyed"],
         handlers |-> IF connected THEN e.handlers \ {Val(e.w.cid)} ELSE e.handlers,
         figs |-> e.figs,
         grab |-> IF e.grab = Some(e.w.id) THEN None ELSE e.grab]

\* CdAPlotWindow._cleanup_and_close on the selector e.w in the environment
\* e = [w, figs, handlers, grab]
CleanupAndClose(e) ==
    LET connected == e.w.cid # None /\ e.w.fig # None
    IN  [w |-> [e.w EXCEPT !.cid = IF connected THEN None ELSE @,
                           !.fig = None,
                           !.win = "destroyed"],
         handlers |-> IF connected THEN e.handlers \ {Val(e.w.cid)} ELSE e.handlers,
         figs |-> IF e.w.fig # None THEN e.figs \ {Val(e.w.fig)} ELSE e.figs,
         grab |-> IF e.grab = Some(e.w.id) THEN None ELSE e.grab]

\* what can go wrong inside the try block of _create_plot besides the data:
\* nothing, plt.subplots raising, or a later call (plot, tight_layout, the
\* canvas) raising once the figure exists
Faults == {"none", "subplots", "render"}

\* CdAPlotWindow._create_plot
CreatePlot(e, fault) ==
    LET prep == PreparePlotData(e.w.df, e.w.time_col, e.w.pressure_col, e.w.weight_col)
        w1 == [e.w EXCEPT !.time_data_numeric = prep.stored]
        e1 == [e EXCEPT !.w = w1]
        withFig == [e1 EXCEPT !.w.fig = Some(e.w.id),
                              !.w.ax2 = (e.w.weight_col # Empty),
                              !.figs = @ \cup {e.w.id}]
    IN  IF ~prep.ok \/ fault = "subplots" THEN CleanupAndClose(e1)
        ELSE IF fault = "render" THEN CleanupAndClose(withFig)
        ELSE [withFig EXCEPT !.w.canvas = TRUE,
                             !.w.cid = Some(e.w.id),
                             !.handlers = @ \cup {e.w.id}]

\* CdAPlotWindow.__init__: the fields, _build_ui, _create_plot, then
\* transient() and grab_set(); on a window _create_plot has destroyed
\* transient() raises TclError and grab_set() is not reached
NewPlotWindow(id, table, tcol, pcol, wcol, e, fault) ==
    LET w0 == [NoWindow EXCEPT !.win = "open", !.id = id, !.df = table,
                               !.time_col = tcol, !.pressure_col = pcol,
                               !.weight_col = wcol]
        e1 == CreatePlot([e EXCEPT !.w = w0], fault)
    IN  IF e1.w.win = "destroyed" THEN e1
        ELSE [e1 EXCEPT !.grab = Some(id)]

Env == [w |-> pw, figs |-> figs, handlers |-> handlers, grab |-> grab]

\* Nothing refers to a CdAPlotWindow once it is destroyed (the calculator
\* keeps no reference to it): of a destroyed window the model keeps the
\* resource handles only.
Collected(w) ==
    IF w.win = "destroyed"
    THEN [NoWindow EXCEPT !.win = w.win, !.id = w.id, !.cid = w.cid, !.fig = w.fig]
    ELSE w

\* _open_plot_window refusing: no file, or no time or pressure column
OpenPlotWindowRefused ==
    /\ CalculatorAcceptsInput
    /\ df = None \/ time_combo = Empty \/ pressure_combo = Empty
    /\ last_op' = <<"open_refused">>
    /\ msgbox' = IF df = None THEN Some("Please load a CSV file first.")
                 ELSE Some("Please select Time and Pressure columns.")
    /\ UNCHANGED <<calc_vars, pw, env_vars, hist_vars>>

\* _open_plot_window constructing a selector
OpenPlotWindow(fault) ==
    /\ CalculatorAcceptsInput
    /\ df # None /\ time_combo # Empty /\ pressure_combo # Empty
    /\ ops < MaxOps
    /\ ops' = ops + 1
    /\ time_col' = Some(time_combo)
    /\ pressure_col' = Some(pressure_combo)
    /\ weight_col' = Some(weight_combo)
    /\ LET e == NewPlotWindow(opens + 1, Val(df), time_combo, pressure_combo,
                              weight_combo, Env, fault)
       IN  /\ pw' = Collected(e.w)
           /\ figs' = e.figs
           /\ handlers' = e.handlers
           /\ grab' = e.grab
           /\ last_op' = IF e.w.win = "open" THEN <<"open">> ELSE <<"open_failed">>
           /\ msgbox' = IF e.w.win = "open" THEN None
                        ELSE Some("Failed to create plot")
    /\ opens' = opens + 1
    /\ nclicks' = 0
    /\ callbacks' = 0
    /\ at_open' = <<start_time, end_time, calculated_mdot>>
    /\ UNCHANGED <<df, time_combo, pressure_combo, weight_combo,
                   start_time, end_time, calculated_mdot, labels, emitted>>

\* ------------------------------------------------------------------------
\* CdAPlotWindow: clicks and Reset
\* ------------------------------------------------------------------------

\* the state of the 2-click protocol a selector is in
Phase(w) ==
    IF w.start_time = None THEN "Empty"
    ELSE IF w.end_time = None THEN "StartSet"
    ELSE "Complete"

\* a matplotlib button_press_event: the axes under the cursor and the data
\* x-coordinate; xdata is None outside the axes, and inside them when the
\* coordinate transform cannot be inverted
Events(w) ==
    {ev \in [inaxes : {"ax1", "ax2", "none"}, xdata : {None} \cup {Some(x) : x \in X}] :
        /\ ev.inaxes = "none" => ev.xdata = None
        /\ ev.inaxes = "ax2" => w.ax2}

\* which branch of _on_plot_click an event takes
ClickBranch(w, ev) ==
    IF ev.inaxes = "none" THEN "ignored"
    ELSE IF ev.xdata = None THEN "ignored"
    ELSE IF w.click_count + 1 = 1 THEN "first"
    ELSE IF w.click_count + 1 = 2 THEN "second"
    ELSE "counted"

\* a first click that leaves the Confirm button as it was
BadFirstClickKeepsButton(w, x) ==
    [w EXCEPT !.start_time = Some(x), !.start_label = Some(x),
              !.end_time = None, !.end_label = None,
              !.start_line = Some(x),
              !.start_line2 = IF w.ax2 THEN Some(x) ELSE None,
              !.end_line = None, !.end_line2 = None]

\* a first click that leaves the previous end in place
BadFirstClickKeepsEnd(w, x) ==
    [w EXCEPT !.start_time = Some(x), !.start_label = Some(x),
              !.confirm_btn = "disabled",
              !.start_line = Some(x),
              !.start_line2 = IF w.ax2 THEN Some(x) ELSE None]

\* the click_count == 1 branch: _remove_lines, then the start lines
FirstClick(w, x) ==
    [w EXCEPT !.start_time = Some(x), !.start_label = Some(x),
              !.end_time = None, !.end_label = None,
              !.confirm_btn = "disabled",
              !.start_line = Some(x),
              !.start_line2 = IF w.ax2 THEN Some(x) ELSE None,
              !.end_line = None, !.end_line2 = None]

\* the second click without the exchange of start and end
BadSecondClick(w, x) ==
    [w EXCEPT !.end_time = Some(x), !.end_label = Some(x),
              !.end_line = Some(x),
              !.end_line2 = IF w.ax2 THEN Some(x) ELSE None,
              !.confirm_btn = "normal",
              !.click_count = 0]

\* a second click that leaves click_count at 2
BadSecondClickKeepsCount(w, x) ==
    LET swap == x < Val(w.start_time)
        st == IF swap THEN x ELSE Val(w.start_time)
        en == IF swap THEN Val(w.start_time) ELSE x
    IN  [w EXCEPT !.start_time = Some(st), !.end_time = Some(en),
                  !.start_label = Some(st), !.end_label = Some(en),
                  !.start_line = IF @ # None THEN Some(st) ELSE @,
                  !.start_line2 = IF @ # None THEN Some(st) ELSE @,
                  !.end_line = Some(en),
                  !.end_line2 = IF w.ax2 THEN Some(en) ELSE None,
                  !.confirm_btn = "normal"]

\* the click_count == 2 branch
SecondClick(w, x) ==
    LET swap == x < Val(w.start_time)
        st == IF swap THEN x ELSE Val(w.start_time)
        en == IF swap THEN Val(w.start_time) ELSE x
    IN  [w EXCEPT !.start_time = Some(st), !.end_time = Some(en),
                  !.start_label = Some(st), !.end_label = Some(en),
                  !.start_line = IF @ # None THEN Some(st) ELSE @,
                  !.start_line2 = IF @ # None THEN Some(st) ELSE @,
                  !.end_line = Some(en),
                  !.end_line2 = IF w.ax2 THEN Some(en) ELSE None,
                  !.confirm_btn = "normal",
                  !.click_count = 0]

\* _on_plot_click counting a click before it checks the axes
BadOnPlotClick(w, ev) ==
    LET branch == ClickBranch(w, ev)
        w1 == [w EXCEPT !.click_count = @ + 1]
    IN  CASE branch = "ignored" -> w1
          [] branch = "first" -> FirstClick(w1, Val(ev.xdata))
          [] branch = "second" -> SecondClick(w1, Val(ev.xdata))
          [] OTHER -> w1

\* CdAPlotWindow._on_plot_click
OnPlotClick(w, ev) ==
    LET branch == ClickBranch(w, ev)
        w1 == [w EXCEPT !.click_count = @ + 1]
    IN  CASE branch = "ignored" -> w
          [] branch = "first" -> FirstClick(w1, Val(ev.xdata))
          [] branch = "second" -> SecondClick(w1, Val(ev.xdata))
          [] OTHER -> w1

\* the handler runs while the window exists and the handler is connected
ClickDelivered == pw.win = "open" /\ pw.cid # None /\ Val(pw.cid) \in handlers

PlotClick(ev) ==
    /\ ClickDelivered
    /\ ev \in Events(pw)
    /\ LET branch == ClickBranch(pw, ev)
       IN  /\ branch # "ignored" => nclicks < MaxClicks
           /\ nclicks' = IF branch = "ignored" THEN nclicks ELSE nclicks + 1
           /\ last_op' = <<"click", branch, ev>>
    /\ msgbox' = None
    /\ pw' = OnPlotClick(pw, ev)
    /\ UNCHANGED <<calc_vars, env_vars, opens, callbacks, emitted, at_open,
                   ops>>

\* a Reset that leaves click_count as it was
BadResetSelectionOf(w) ==
    [w EXCEPT !.start_time = None, !.end_time = None,
              !.start_label = None, !.end_label = None,
              !.confirm_btn = "disabled",
              !.start_line = None, !.end_line = None,
              !.start_line2 = None, !.end_line2 = None]

\* CdAPlotWindow._reset_selection
ResetSelectionOf(w) ==
    [w EXCEPT !.start_time = None, !.end_time = None, !.click_count = 0,
              !.start_label = None, !.end_label = None,
              !.confirm_btn = "disabled",
              !.start_line = None, !.end_line = None,
              !.start_line2 = None, !.end_line2 = None]

ResetSelection ==
    /\ pw.win = "open"
    /\ pw' = ResetSelectionOf(pw)
    /\ nclicks' = 0
    /\ last_op' = <<"reset", Phase(pw)>>
    /\ msgbox' = None
    /\ UNCHANGED <<calc_vars, env_vars, opens, callbacks, emitted, at_open,
                   ops>>

\* ------------------------------------------------------------------------
\* CdAPlotWindow: Confirm, Cancel and window close
\* ------------------------------------------------------------------------

\* a callback that stores the rate and leaves the window as it was
BadOnTimeSelectionConfirmed(s, e, m) ==
    /\ UNCHANGED <<start_time, end_time>>
    /\ calculated_mdot' = m
    /\ labels' = [labels EXCEPT !.start_time = Some(s), !.end_time = Some(e),
                                !.mdot = IF m # None THEN "value" ELSE "No weight data"]

\* CdACalculatorWindow._on_time_selection_confirmed(start_time, end_time, mdot)
OnTimeSelectionConfirmed(s, e, m) ==
    /\ start_time' = Some(s)
    /\ end_time' = Some(e)
    /\ calculated_mdot' = m
    /\ labels' = [labels EXCEPT !.start_time = Some(s), !.end_time = Some(e),
                                !.mdot = IF m # None THEN "value" ELSE "No weight data"]

\* a callback that passes the pair in the order clicked last
BadConfirmArgs(w, m, n) ==
    [start |-> w.end_time, end |-> w.start_time, mdot |-> m, win |-> w.win, n |-> n]

\* the arguments of self.on_confirm_callback(self.start_time, self.end_time,
\* mdot), the state of the window when it is called, and the number of
\* callbacks delivered so far in the run
ConfirmArgs(w, m, n) ==
    [start |-> w.start_time, end |-> w.end_time, mdot |-> m, win |-> w.win, n |-> n]

\* CdAPlotWindow._on_confirm; the button invokes it only while enabled
OnConfirm ==
    /\ pw.win = "open"
    /\ pw.confirm_btn = "normal"
    /\ IF pw.start_time # None /\ pw.end_time # None
       THEN \E m \in CalculateMdot(pw) :
               LET args == ConfirmArgs(pw, m, emitted.n + 1)
               IN  /\ OnTimeSelectionConfirmed(Val(args.start), Val(args.end), args.mdot)
                   /\ callbacks' = callbacks + 1
                   /\ emitted' = args
       ELSE UNCHANGED <<start_time, end_time, calculated_mdot, labels,
                        callbacks, emitted>>
    /\ LET e == CleanupAndClose(Env)
       IN  pw' = Collected(e.w) /\ figs' = e.figs /\ handlers' = e.handlers /\ grab' = e.grab
    /\ last_op' = <<"confirm">>
    /\ msgbox' = None
    /\ UNCHANGED <<df, time_combo, pressure_combo, weight_combo,
                   time_col, pressure_col, weight_col, opens, nclicks, at_open,
                   ops>>

\* a Cancel that delivers the selection like Confirm
BadOnClose ==
    /\ pw.win = "open"
    /\ IF pw.start_time # None /\ pw.end_time # None
       THEN \E m \in CalculateMdot(pw) :
               /\ OnTimeSelectionConfirmed(Val(pw.start_time), Val(pw.end_time), m)
               /\ callbacks' = callbacks + 1
               /\ emitted' = ConfirmArgs(pw, m, emitted.n + 1)
       ELSE UNCHANGED <<start_time, end_time, calculated_mdot, labels,
                        callbacks, emitted>>
    /\ LET e == CleanupAndClose(Env)
       IN  pw' = Collected(e.w) /\ figs' = e.figs /\ handlers' = e.handlers /\ grab' = e.grab
    /\ last_op' = <<"close", Phase(pw)>>
    /\ msgbox' = None
    /\ UNCHANGED <<df, time_combo, pressure_combo, weight_combo,
                   time_col, pressure_col, weight_col, opens, nclicks, at_open,
                   ops>>

\* CdAPlotWindow._on_close: the Cancel button and WM_DELETE_WINDOW
OnClose ==
    /\ pw.win = "open"
    /\ LET e == CleanupAndClose(Env)
       IN  pw' = Collected(e.w) /\ figs' = e.figs /\ handlers' = e.handlers /\ grab' = e.grab
    /\ last_op' = <<"close", Phase(pw)>>
    /\ msgbox' = None
    /\ UNCHANGED <<calc_vars, opens, nclicks, callbacks, emitted, at_open,
                   ops>>

\* ------------------------------------------------------------------------
\* The calculator with its selector
\* ------------------------------------------------------------------------

Step ==
    \/ \E file \in Files : LoadCsv(file)
    \/ LoadCsvAborted
    \/ \E col \in ComboValues : SelectTimeCol(col)
    \/ \E col \in ComboValues : SelectPressureCol(col)
    \/ \E col \in ComboValues : SelectWeightCol(col)
    \/ OpenPlotWindowRefused
    \/ \E fault \in Faults : OpenPlotWindow(fault)
    \/ \E ev \in Events(pw) : PlotClick(ev)
    \/ ResetSelection
    \/ OnConfirm
    \/ OnClose

Next == Step /\ UNCHANGED <<probe, eval_vars, ven_vars, nav_vars>>

Spec == Init /\ [][Next]_vars

\* ------------------------------------------------------------------------
\* CdACalculatorWindow: the CdA panel and the set-pressure panel
\* ------------------------------------------------------------------------

\* what the panels' handlers leave alone (ops counts the presses, see
\* Press)
data_vars == <<calc_vars, pw, env_vars, sel_hist, probe>>

\* the calculator's buttons respond while neither the selector nor the
\* "Select P_low Column" dialog holds the input grab
PanelAcceptsInput == CalculatorAcceptsInput /\ ~dialog.open

\* _get_numeric_time_data falling back to timestamps as soon as one entry
\* is not numeric
BadGetNumericTimeData(time_col_data) ==
    LET time_numeric == [i \in DOMAIN time_col_data |-> ToNumeric(time_col_data[i])]
        time_dt == [i \in DOMAIN time_col_data |-> ToDatetime(time_col_data[i])]
        present == {i \in DOMAIN time_col_data : time_dt[i] # None}
        min == CHOOSE m \in {Val(time_dt[i]) : i \in present} :
                  \A i \in present : m <= Val(time_dt[i])
    IN  IF \E i \in DOMAIN time_col_data : time_numeric[i] = None
        THEN IF present = {} THEN None
             ELSE Some([i \in DOMAIN time_col_data |->
                          IF i \in present THEN Some(Val(time_dt[i]) - min) ELSE None])
        ELSE Some(time_numeric)

\* CdACalculatorWindow._get_numeric_time_data on the cells of the time
\* column: the array it returns, or None
GetNumericTimeData(time_col_data) ==
    LET time_numeric == [i \in DOMAIN time_col_data |-> ToNumeric(time_col_data[i])]
        time_dt == [i \in DOMAIN time_col_data |-> ToDatetime(time_col_data[i])]
        present == {i \in DOMAIN time_col_data : time_dt[i] # None}
        min == CHOOSE m \in {Val(time_dt[i]) : i \in present} :
                  \A i \in present : m <= Val(time_dt[i])
    IN  IF \A i \in DOMAIN time_col_data : time_numeric[i] = None
        THEN IF present = {} THEN None
             ELSE Some([i \in DOMAIN time_col_data |->
                          IF i \in present THEN Some(Val(time_dt[i]) - min) ELSE None])
        ELSE Some(time_numeric)

\* np.nanmean(data[mask]); NaN when no cell of the mask holds a number
NanMean(data, mask) ==
    LET valid == {i \in mask : data[i] # None}
    IN  IF valid = {} THEN NaN
        ELSE Fraction(SumOver(valid, [i \in valid |-> Val(data[i])]),
                      Cardinality(valid))

\* The body of the try block of _use_avg_pressure and of apply_column: the
\* average of column col over the calculator's time window, or the message
\* of the messagebox shown instead.  self.df[name] raises KeyError for a
\* name that is no column of the table; the handler reports it as failed.
AveragePressure(col, failed) ==
    LET err(m) == [ok |-> FALSE, msg |-> m, avg |-> NaN]
        table == Val(df)
    IN  IF time_col = None \/ ~HasColumn(table, Val(time_col)) THEN err(failed)
        ELSE LET time_data == GetNumericTimeData(Column(table, Val(time_col))) IN
        IF time_data = None THEN err("Could not parse time data.")
        ELSE IF col = None \/ ~HasColumn(table, Val(col)) THEN err(failed)
        ELSE LET pressure_data == [i \in DOMAIN Val(time_data) |->
                                     ToNumeric(Column(table, Val(col))[i])]
                 mask == WindowMask(Val(time_data), Val(start_time), Val(end_time))
             IN  IF mask = {} THEN err("No data in selected time range.")
                 ELSE [ok |-> TRUE, msg |-> "", avg |-> NanMean(pressure_data, mask)]

\* _use_avg_pressure(which)
UseAvgPressure(which) ==
    /\ PanelAcceptsInput
    /\ IF start_time = None \/ end_time = None
       THEN /\ msgbox' = Some("Please select start and end times first using the Plot Window.")
            /\ last_op' = <<"use_avg", "prerequisite">>
            /\ UNCHANGED <<p_high_var, p_low_var>>
       ELSE LET out == AveragePressure(pressure_col, "Failed to calculate average") IN
            IF out.ok
            THEN /\ msgbox' = None
                 /\ last_op' = <<"use_avg", "ok">>
                 /\ IF which = "high"
                    THEN p_high_var' = Format(out.avg, 2) /\ UNCHANGED p_low_var
                    ELSE p_low_var' = Format(out.avg, 2) /\ UNCHANGED p_high_var
            ELSE /\ msgbox' = Some(out.msg)
                 /\ last_op' = <<"use_avg", "data">>
                 /\ UNCHANGED <<p_high_var, p_low_var>>
    /\ UNCHANGED <<data_vars, rho_var, setpoint_cda_var, setpoint_mdot_var,
                   setpoint_rho_var, manifold_p_var, result_vars, dialog,
                   ven_vars, nav_vars>>

\* _set_ambient_pressure
SetAmbientPressure ==
    /\ PanelAcceptsInput
    /\ p_low_var' = NumText(<<147, 10>>)
    /\ msgbox' = None
    /\ last_op' = <<"ambient">>
    /\ UNCHANGED <<data_vars, p_high_var, rho_var, setpoint_cda_var,
                   setpoint_mdot_var, setpoint_rho_var, manifold_p_var,
                   result_vars, dialog, ven_vars, nav_vars>>

\* _select_p_low_column up to the dialog being shown
SelectPLowColumn ==
    /\ PanelAcceptsInput
    /\ IF df = None
       THEN /\ msgbox' = Some("Please load a CSV file first.")
            /\ last_op' = <<"p_low_from_csv", "prerequisite">>
            /\ UNCHANGED dialog
       ELSE IF start_time = None \/ end_time = None
       THEN /\ msgbox' = Some("Please select start and end times first.")
            /\ last_op' = <<"p_low_from_csv", "prerequisite">>
            /\ UNCHANGED dialog
       ELSE /\ msgbox' = None
            /\ last_op' = <<"p_low_from_csv", "dialog">>
            /\ dialog' = [open |-> TRUE, col_var |-> Empty]
    /\ UNCHANGED <<data_vars, entry_vars, result_vars, ven_vars, nav_vars>>

\* a column chosen in the dialog's readonly combobox
DialogSelectColumn(col) ==
    /\ dialog.open
    /\ col \in ComboValues
    /\ dialog' = [dialog EXCEPT !.col_var = col]
    /\ msgbox' = None
    /\ last_op' = <<"dialog_select">>
    /\ UNCHANGED <<data_vars, entry_vars, result_vars, ven_vars, nav_vars>>

\* apply_column, the dialog's "Use Average" button
ApplyColumn ==
    /\ dialog.open
    /\ IF dialog.col_var = Empty
       THEN /\ msgbox' = Some("Please select a column.")
            /\ last_op' = <<"apply_column", "prerequisite">>
            /\ UNCHANGED <<p_low_var, dialog>>
       ELSE LET out == AveragePressure(Some(dialog.col_var), "Failed to calculate") IN
            IF out.ok
            THEN /\ msgbox' = None
                 /\ last_op' = <<"apply_column", "ok">>
                 /\ p_low_var' = Format(out.avg, 2)
                 /\ dialog' = NoDialog
            ELSE /\ msgbox' = Some(out.msg)
                 /\ last_op' = <<"apply_column", "data">>
                 /\ UNCHANGED <<p_low_var, dialog>>
    /\ UNCHANGED <<data_vars, p_high_var, rho_var, setpoint_cda_var,
                   setpoint_mdot_var, setpoint_rho_var, manifold_p_var,
                   result_vars, ven_vars, nav_vars>>

\* the dialog closed through the window manager
DialogClose ==
    /\ dialog.open
    /\ dialog' = NoDialog
    /\ msgbox' = None
    /\ last_op' = <<"dialog_close">>
    /\ UNCHANGED <<data_vars, entry_vars, result_vars, ven_vars, nav_vars>>

\* What a Calculate handler comes to: kind is "ok" (value is the result),
\* "input" (float() raised ValueError), "prerequisite", "domain" or "error"
\* (another exception); msg is the text of the messagebox shown.
Rejected(kind, msg) == [kind |-> kind, msg |-> msg, value |-> NaN]

Computed(value) == [kind |-> "ok", msg |-> "", value |-> value]

\* _calculate_cda taking a missing rate for zero
BadEvalCda(p_high_text, p_low_text, rho_text, mdot) ==
    LET p_high_psi == ParseFloat(p_high_text)
        p_low_psi == ParseFloat(p_low_text)
        rho == ParseFloat(rho_text)
    IN  IF p_high_psi = None \/ p_low_psi = None \/ rho = None
        THEN Rejected("input", "Please enter valid numeric values for all parameters.")
        ELSE LET p_high_pa == FMul(Val(p_high_psi), PSI_TO_PA)
                 p_low_pa == FMul(Val(p_low_psi), PSI_TO_PA)
                 delta_p == FSub(p_high_pa, p_low_pa)
             IN  IF FLe(delta_p, Zero)
                 THEN Rejected("domain", "P_high must be greater than P_low.")
                 ELSE IF FLe(Val(rho), Zero)
                 THEN Rejected("domain", "Density must be positive.")
                 ELSE Computed(Quot(IF mdot = None THEN Zero ELSE Val(mdot),
                                    FMul(FMul(<<2, 1>>, Val(rho)), delta_p)))

\* the body of _calculate_cda on the texts of the three entries and the
\* calculator's calculated_mdot
EvalCda(p_high_text, p_low_text, rho_text, mdot) ==
    LET p_high_psi == ParseFloat(p_high_text)
        p_low_psi == ParseFloat(p_low_text)
        rho == ParseFloat(rho_text)
    IN  IF p_high_psi = None \/ p_low_psi = None \/ rho = None
        THEN Rejected("input", "Please enter valid numeric values for all parameters.")
        ELSE IF mdot = None
        THEN Rejected("prerequisite", "Please select time range to calculate mdot first.")
        ELSE LET p_high_pa == FMul(Val(p_high_psi), PSI_TO_PA)
                 p_low_pa == FMul(Val(p_low_psi), PSI_TO_PA)
                 delta_p == FSub(p_high_pa, p_low_pa)
             IN  IF FLe(delta_p, Zero)
                 THEN Rejected("domain", "P_high must be greater than P_low.")
                 ELSE IF FLe(Val(rho), Zero)
                 THEN Rejected("domain", "Density must be positive.")
                 ELSE Computed(Quot(Val(mdot),
                                    FMul(FMul(<<2, 1>>, Val(rho)), delta_p)))

\* cda * 1e6
TimesMillion(x) ==
    IF x = NaN THEN NaN
    ELSE IF Len(x) = 2 THEN FMul(x, <<1000000, 1>>)
    ELSE <<"quot", FMul(x[2], <<1000000, 1>>), x[3]>>

\* _calculate_cda blanking the result labels when it fails
BadCalculateCda ==
    /\ PanelAcceptsInput
    /\ LET out == EvalCda(p_high_var, p_low_var, rho_var, calculated_mdot) IN
       /\ last_op' = <<"calculate_cda", out.kind>>
       /\ IF out.kind = "ok"
          THEN /\ calculated_cda' = Some(out.value)
               /\ result_label' = Some(Format(out.value, 8))
               /\ result_units' = Some(Format(TimesMillion(out.value), 2))
               /\ msgbox' = None
          ELSE /\ msgbox' = Some(out.msg)
               /\ result_label' = None
               /\ result_units' = None
               /\ UNCHANGED calculated_cda
    /\ UNCHANGED <<data_vars, entry_vars, setpoint_result_label,
                   setpoint_result_pa, dialog, ven_vars, nav_vars>>

\* _calculate_cda
CalculateCda ==
    /\ PanelAcceptsInput
    /\ LET out == EvalCda(p_high_var, p_low_var, rho_var, calculated_mdot) IN
       /\ last_op' = <<"calculate_cda", out.kind>>
       /\ IF out.kind = "ok"
          THEN /\ calculated_cda' = Some(out.value)
               /\ result_label' = Some(Format(out.value, 8))
               /\ result_units' = Some(Format(TimesMillion(out.value), 2))
               /\ msgbox' = None
          ELSE /\ msgbox' = Some(out.msg)
               /\ UNCHANGED <<calculated_cda, result_label, result_units>>
    /\ UNCHANGED <<data_vars, entry_vars, setpoint_result_label,
                   setpoint_result_pa, dialog, ven_vars, nav_vars>>

\* the body of _calculate_setpoint on the texts of the four entries; the
\* result is the set pressure as the formula of its inputs,
\* ((mdot / cda) ** 2 / (2 * rho) + manifold_p_psi * PSI_TO_PA) / PSI_TO_PA;
\* the OverflowError that (mdot / cda) ** 2 raises for a Huge mdot and any
\* cda of the model is caught by the handler's except Exception
EvalSetpoint(cda_text, mdot_text, rho_text, manifold_text) ==
    LET cda == ParseFloat(cda_text)
        mdot == ParseFloat(mdot_text)
        rho == ParseFloat(rho_text)
        manifold_p_psi == ParseFloat(manifold_text)
    IN  IF cda = None \/ mdot = None \/ rho = None \/ manifold_p_psi = None
        THEN Rejected("input", "Please enter valid numeric values for all inputs.")
        ELSE IF NonPositive(Val(cda))
        THEN Rejected("domain", "CdA must be positive.")
        ELSE IF FLe(Val(rho), Zero)
        THEN Rejected("domain", "Density must be positive.")
        ELSE IF Val(mdot) = Huge /\ Val(cda) # NaN
        THEN Rejected("error", "Calculation failed")
        ELSE Computed([cda |-> Val(cda), mdot |-> Val(mdot), rho |-> Val(rho),
                       manifold_p_psi |-> Val(manifold_p_psi)])

\* _calculate_setpoint
CalculateSetpoint ==
    /\ PanelAcceptsInput
    /\ LET out == EvalSetpoint(setpoint_cda_var, setpoint_mdot_var,
                               setpoint_rho_var, manifold_p_var) IN
       /\ last_op' = <<"calculate_setpoint", out.kind>>
       /\ IF out.kind = "ok"
          THEN /\ setpoint_result_label' = Some([p_set |-> out.value, unit |-> "PSI"])
               /\ setpoint_result_pa' = Some([p_set |-> out.value, unit |-> "Pa"])
               /\ msgbox' = None
          ELSE /\ msgbox' = Some(out.msg)
               /\ UNCHANGED <<setpoint_result_label, setpoint_result_pa>>
    /\ UNCHANGED <<data_vars, entry_vars, calculated_cda, result_label,
                   result_units, dialog, ven_vars, nav_vars>>

\* _copy_cda_to_setpoint, the "Use Calculated" button next to CdA
CopyCdaToSetpoint ==
    /\ PanelAcceptsInput
    /\ IF calculated_cda # None
       THEN /\ setpoint_cda_var' = Format(Val(calculated_cda), 10)
            /\ msgbox' = None
            /\ last_op' = <<"copy_cda", "ok">>
       ELSE /\ msgbox' = Some("Please calculate CdA first.")
            /\ last_op' = <<"copy_cda", "prerequisite">>
            /\ UNCHANGED setpoint_cda_var
    /\ UNCHANGED <<data_vars, p_high_var, p_low_var, rho_var, setpoint_mdot_var,
                   setpoint_rho_var, manifold_p_var, result_vars, dialog,
                   ven_vars, nav_vars>>

\* _copy_mdot_to_setpoint, the "Use Calculated" button next to the target
CopyMdotToSetpoint ==
    /\ PanelAcceptsInput
    /\ IF calculated_mdot # None
       THEN /\ setpoint_mdot_var' = Format(Val(calculated_mdot), 4)
            /\ msgbox' = None
            /\ last_op' = <<"copy_mdot", "ok">>
       ELSE /\ msgbox' = Some("Please select a time range with weight data first.")
            /\ last_op' = <<"copy_mdot", "prerequisite">>
            /\ UNCHANGED setpoint_mdot_var
    /\ UNCHANGED <<data_vars, p_high_var, p_low_var, rho_var, setpoint_cda_var,
                   setpoint_rho_var, manifold_p_var, result_vars, dialog,
                   ven_vars, nav_vars>>

\* the Water, LOX and RP-1 buttons of the set-pressure panel
SetpointDensities == {<<1000, 1>>, <<1141, 1>>, <<820, 1>>}

SetSetpointDensity(d) ==
    /\ PanelAcceptsInput
    /\ setpoint_rho_var' = NumText(d)
    /\ msgbox' = None
    /\ last_op' = <<"setpoint_density">>
    /\ UNCHANGED <<data_vars, p_high_var, p_low_var, rho_var, setpoint_cda_var,
                   setpoint_mdot_var, manifold_p_var, result_vars, dialog,
                   ven_vars, nav_vars>>

\* ------------------------------------------------------------------------
\* VenturiMdotWindow (handlers/plot_ox_mdot_venturi.py)
\* ------------------------------------------------------------------------

\* IN2_TO_M2 = 0.00064516 as a fraction
IN2_TO_M2 == <<16129, 25000000>>

n_P1 == <<"P", "1">>
n_P2 == <<"P", "2">>
n_Note == <<"N", "o", "t", "e">>

\* a file with two pressure columns (P1 above and below P2) and a text
\* column
VenturiFile ==
    [columns |-> <<n_Time, n_P1, n_P2, n_Note>>,
     rows |-> << <<Num(0), Num(2), Num(1), Text>>,
                 <<Num(1), Num(1), Num(2), Text>> >>]

\* One element of mdot after np.nan_to_num: cd * y * a2 * sqrt(2 * rho *
\* max(p1_pa - p2_pa, 0) / (1 - (a2 / a1) ** 2)) for areas in m^2 with
\* 0 < a2 < a1.  A product with a root is written <<"root", coefficient,
\* a2, numerator, denominator>>, the coefficient being cd * y and the root
\* that of numerator / denominator; NaN becomes 0.
VenturiSample(p1_psi, p2_psi, a1, a2, cd, y, rho) ==
    LET diff == FSub(FMul(p1_psi, PSI_TO_PA), FMul(p2_psi, PSI_TO_PA))
        delta_p == IF diff = NaN THEN NaN ELSE IF FLe(diff, Zero) THEN Zero ELSE diff
        beta == FDiv(a2, a1)
        denominator == FSub(<<1, 1>>, FMul(beta, beta))
        numerator == FMul(FMul(<<2, 1>>, rho), delta_p)
        coefficient == FMul(cd, y)
    IN  IF numerator = NaN \/ denominator = NaN \/ coefficient = NaN THEN Zero
        ELSE IF FLt(numerator, Zero) THEN Zero
        ELSE IF numerator = Zero \/ coefficient = Zero THEN Zero
        ELSE <<"root", coefficient, a2, numerator, denominator>>

\* data[mask].iloc[::ds]: the rows of the mask, every ds-th of them
RECURSIVE EveryNth(_, _)
EveryNth(q, ds) ==
    IF q = << >> THEN << >>
    ELSE <<Head(q)>> \o EveryNth(SubSeq(q, ds + 1, Len(q)), ds)

RECURSIVE MaskedRows(_, _, _)
MaskedRows(n, mask, i) ==
    IF i > n THEN << >>
    ELSE (IF i \in mask THEN <<i>> ELSE << >>) \o MaskedRows(n, mask, i + 1)

\* utils.apply_extra_data(app): a boolean mask over the rows of the table
ApplyExtraData(table) == SUBSET (1..Len(table.rows))

\* the values of the analyzer's downsampling slider the model uses
Downsamplings == {1, 2}

\* the body of _calculate_and_plot up to the arrays it plots, for a mask
\* and a slider value: kind "ok" with the time and mdot arrays, or the
\* error it ends with
EvalVenturi(w, c, mask, slider) ==
    LET a1_in2 == ParseFloat(w.a1_var)
        a2_in2 == ParseFloat(w.a2_var)
        cd == ParseFloat(w.cd_var)
        y == ParseFloat(w.y_var)
        rho == ParseFloat(w.rho_var)
        table == Val(c.df)
    IN  IF w.p1_col_var = Empty \/ w.p2_col_var = Empty
        THEN Rejected("prerequisite", "Please select both P1 and P2 pressure columns.")
        ELSE IF a1_in2 = None \/ a2_in2 = None \/ cd = None \/ y = None \/ rho = None
        THEN Rejected("input", "Invalid input value")
        ELSE IF FLe(Val(a1_in2), Zero) \/ FLe(Val(a2_in2), Zero)
        THEN Rejected("domain", "Areas must be positive values.")
        ELSE IF FLe(Val(a1_in2), Val(a2_in2))
        THEN Rejected("domain", "A2 (throat) must be smaller than A1 (upstream).")
        ELSE IF FLe(Val(cd), Zero) \/ FLt(<<1, 1>>, Val(cd))
        THEN Rejected("domain", "Discharge coefficient must be between 0 and 1.")
        ELSE IF c.time_col = None \/ ~HasColumn(table, Val(c.time_col))
        THEN Rejected("data", "Calculation failed")
        ELSE LET rows == EveryNth(MaskedRows(Len(table.rows), mask, 1),
                                  IF slider > 1 THEN slider ELSE 1)
                 p1 == Column(table, w.p1_col_var)
                 p2 == Column(table, w.p2_col_var)
                 a1 == FMul(Val(a1_in2), IN2_TO_M2)
                 a2 == FMul(Val(a2_in2), IN2_TO_M2)
             IN  IF \E i \in 1..Len(rows) :
                        p1[rows[i]].k # "num" \/ p2[rows[i]].k # "num"
                 THEN Rejected("data", "Invalid input value")
                 ELSE Computed(
                        [time |-> [i \in 1..Len(rows) |->
                                     Column(table, Val(c.time_col))[rows[i]]],
                         mdot |-> [i \in 1..Len(rows) |->
                                     VenturiSample(<<p1[rows[i]].v, 1>>,
                                                   <<p2[rows[i]].v, 1>>,
                                                   a1, a2, Val(cd), Val(y), Val(rho))]])

\* What _calculate_and_plot leaves on the screen: the figure, the number of
\* points drawn, the time array, and what on_click keeps: the x of the
\* points clicked, the number of lines of the axes (the raw and the
\* smoothed curve at first), the average line and the average label.
NewPlot(fig, value) ==
    [fig |-> fig, n |-> Len(value.mdot), time |-> value.time,
     points |-> << >>, lines |-> 2, avg_line |-> None, avg_label |-> None]

\* The figures a VenturiMdotWindow creates are numbered -1, -2, ...
\* _calculate_and_plot: once the arrays are computed the previous plot's
\* widgets are destroyed and a new figure, canvas and click handler are
\* created; np.nanmax then raises ValueError on an empty array and the
\* result label is left as it was.  The window's plot is kept as the
\* number of its figure and the number of points drawn, and the result
\* label as the number of the figure whose average and maximum it shows.
CalculateAndPlot ==
    /\ vw.win = "open"
    /\ \E mask \in ApplyExtraData(Val(ctx.df)), slider \in Downsamplings :
         LET out == EvalVenturi(vw, ctx, mask, slider)
             fig == -(vw.plots + 1)
             plot == NewPlot(fig, out.value)
         IN  IF out.kind # "ok"
             THEN /\ msgbox' = Some(out.msg)
                  /\ last_op' = <<"venturi_calculate", out.kind>>
                  /\ UNCHANGED <<vw, figs, handlers>>
             ELSE /\ figs' = figs \cup {fig}
                  /\ handlers' = handlers \cup {fig}
                  /\ IF Len(out.value.mdot) = 0
                     THEN /\ vw' = [vw EXCEPT !.plot = Some(plot), !.plots = @ + 1]
                          /\ msgbox' = Some("Invalid input value")
                          /\ last_op' = <<"venturi_calculate", "empty">>
                     ELSE /\ vw' = [vw EXCEPT !.plot = Some(plot), !.plots = @ + 1,
                                              !.result_label = Some(fig)]
                          /\ msgbox' = None
                          /\ last_op' = <<"venturi_calculate", "ok">>
    /\ UNCHANGED <<calc_vars, pw, grab, sel_hist, probe, eval_vars, ctx, nav_vars>>

\* VenturiMdotWindow.__init__
NewVenturiWindow ==
    [NoVenturi EXCEPT !.win = "open",
                      !.a1_var = NumText(<<1, 2>>), !.a2_var = NumText(<<1, 4>>),
                      !.cd_var = NumText(<<49, 50>>), !.y_var = NumText(<<1, 1>>),
                      !.rho_var = NumText(<<1141, 1>>)]

\* run(app); the model keeps one venturi window at a time
VenturiRun ==
    /\ vw.win # "open"
    /\ IF ctx.df = None \/ ctx.time_col = None
       THEN /\ msgbox' = Some("Please load a CSV file first.")
            /\ last_op' = <<"venturi_run", "prerequisite">>
            /\ UNCHANGED vw
       ELSE /\ msgbox' = None
            /\ last_op' = <<"venturi_run", "ok">>
            /\ vw' = NewVenturiWindow
    /\ UNCHANGED <<data_vars, eval_vars, ctx, nav_vars>>

\* the values the readonly P1 and P2 comboboxes offer
VenturiColumns ==
    IF ctx.df = None THEN {}
    ELSE {Val(ctx.df).columns[i] : i \in 1..Len(Val(ctx.df).columns)}

\* a column chosen in the P1 or the P2 combobox
VenturiSelectColumn(which, col) ==
    /\ vw.win = "open"
    /\ col \in VenturiColumns
    /\ vw' = IF which = "p1" THEN [vw EXCEPT !.p1_col_var = col]
             ELSE [vw EXCEPT !.p2_col_var = col]
    /\ msgbox' = None
    /\ last_op' = <<"venturi_select">>
    /\ UNCHANGED <<data_vars, eval_vars, ctx, nav_vars>>

\* the Water, LOX, N2O and Ethanol buttons: self.rho_var.set(str(d))
FLUID_DENSITIES == {<<1000, 1>>, <<1141, 1>>, <<1220, 1>>, <<789, 1>>}

VenturiSetDensity(d) ==
    /\ vw.win = "open"
    /\ vw' = [vw EXCEPT !.rho_var = NumText(d)]
    /\ msgbox' = None
    /\ last_op' = <<"venturi_density">>
    /\ UNCHANGED <<data_vars, eval_vars, ctx, nav_vars>>

\* a venturi window closed through the window manager
VenturiClose ==
    /\ vw.win = "open"
    /\ vw' = [NoVenturi EXCEPT !.win = "destroyed", !.plots = vw.plots]
    /\ msgbox' = None
    /\ last_op' = <<"venturi_close">>
    /\ UNCHANGED <<data_vars, eval_vars, ctx, nav_vars>>

\* ------------------------------------------------------------------------
\* The rate estimator on enumerated tables
\* ------------------------------------------------------------------------

\* a time cell: no number, or a time on the click axis
TimeCells == {Text} \cup {Num(t) : t \in X}

\* a weight cell: no number, or one of two weights
WeightCells == {Text, Num(0), Num(1)}

RECURSIVE SeqsUpTo(_, _)
\* the sequences over S of length at most n
SeqsUpTo(S, n) ==
    IF n = 0 THEN {<< >>}
    ELSE LET shorter == SeqsUpTo(S, n - 1)
         IN  shorter \cup {Append(q, c) : q \in shorter, c \in S}

\* tables with a time, a pressure and a weight column, and tables with a
\* time and a pressure column only; every pressure is present
RateTables ==
    {[columns |-> <<n_Time, n_Pressure, n_Weight>>, rows |-> rows] :
        rows \in SeqsUpTo({<<t, Num(1), w>> : t \in TimeCells, w \in WeightCells},
                          MaxRows)}
    \cup
    {[columns |-> <<n_Time, n_Pressure>>, rows |-> rows] :
        rows \in SeqsUpTo({<<t, Num(1)>> : t \in TimeCells}, MaxRows)}

\* the windows a selector can hold (start <= end once both are set)
RateWindows ==
    {<<None, None>>}
    \cup {<<Some(a), None>> : a \in X}
    \cup {<<Some(ab[1]), Some(ab[2])>> : ab \in {p \in X \X X : p[1] <= p[2]}}

\* the selector _open_plot_window constructs on a table with the columns
\* the auto-detection chooses
SelectorOn(table) ==
    LET cs == AutodetectColumns(
                  [time_combo |-> Empty, time_col |-> None,
                   pressure_combo |-> Empty, pressure_col |-> None,
                   weight_combo |-> Empty, weight_col |-> None], table.columns)
        e0 == [w |-> NoWindow, figs |-> {}, handlers |-> {}, grab |-> None]
    IN  NewPlotWindow(1, table, cs.time_combo, cs.pressure_combo, cs.weight_combo,
                      e0, "none").w

\* the open selectors over the tables, with every window
RateInputs ==
    {[w EXCEPT !.start_time = win[1], !.end_time = win[2]] :
        w \in {o \in {SelectorOn(table) : table \in RateTables} : o.win = "open"},
        win \in RateWindows}

InitRate ==
    /\ InitCalculator
    /\ pw = NoWindow
    /\ InitEnv
    /\ InitHist /\ InitLauncher
    /\ last_op = <<"init">>
    /\ msgbox = None
    /\ InitPanels
    /\ InitVenturi
    /\ probe \in {[w |-> w, done |-> FALSE, out |-> None] : w \in RateInputs}

\* mdot = self._calculate_mdot() on the enumerated selector
ApplyCalculateMdot ==
    /\ ~probe.done
    /\ \E m \in CalculateMdot(probe.w) :
          probe' = [probe EXCEPT !.done = TRUE, !.out = m]
    /\ UNCHANGED <<calc_vars, pw, env_vars, hist_vars, last_op, msgbox,
                   eval_vars, ven_vars, nav_vars>>

NextRate == ApplyCalculateMdot

SpecRate == InitRate /\ [][NextRate]_vars

\* ------------------------------------------------------------------------
\* The formula evaluators on enumerated calculator states and entries
\* ------------------------------------------------------------------------

\* the data fields of the calculator in its constructed state
FreshData ==
    [df |-> None, time_combo |-> Empty, pressure_combo |-> Empty,
     weight_combo |-> Empty, time_col |-> None, pressure_col |-> None,
     weight_col |-> None, start_time |-> None, end_time |-> None,
     calculated_mdot |-> None]

\* ... after _load_csv of a file
LoadedData(c, file) ==
    LET cs == AutodetectColumns(
                  [time_combo |-> c.time_combo, time_col |-> c.time_col,
                   pressure_combo |-> c.pressure_combo, pressure_col |-> c.pressure_col,
                   weight_combo |-> c.weight_combo, weight_col |-> c.weight_col],
                  file.columns)
    IN  [c EXCEPT !.df = Some(file),
                  !.time_combo = cs.time_combo, !.time_col = cs.time_col,
                  !.pressure_combo = cs.pressure_combo, !.pressure_col = cs.pressure_col,
                  !.weight_combo = cs.weight_combo, !.weight_col = cs.weight_col]

\* ... after a selector opened on the loaded file was confirmed with the
\* window (s, e)
ConfirmedData(c, s, e) ==
    LET w == [SelectorOn(Val(c.df)) EXCEPT !.start_time = Some(s), !.end_time = Some(e)]
    IN  {[c EXCEPT !.time_col = Some(c.time_combo),
                   !.pressure_col = Some(c.pressure_combo),
                   !.weight_col = Some(c.weight_combo),
                   !.start_time = Some(s), !.end_time = Some(e),
                   !.calculated_mdot = m] : m \in CalculateMdot(w)}

\* the windows confirmed: one sample, the whole file, and the row without
\* a pressure
ConfirmedWindows == {<<0, 0>>, <<0, MaxX>>, <<1, 1>>}

\* the calculator states the evaluators are run in: constructed, a file
\* loaded (VenturiFile has no column that is detected as a pressure), a
\* window confirmed, and another file loaded after that
CalculatorData ==
    LET loaded == {LoadedData(FreshData, file) : file \in Files}
        confirmed == UNION {ConfirmedData(c, p[1], p[2]) :
                              c \in loaded, p \in ConfirmedWindows}
    IN  {FreshData, LoadedData(FreshData, VenturiFile)} \cup loaded \cup confirmed
        \cup {LoadedData(c, FileB) :
                c \in {d \in confirmed : d.df = Some(FileA) /\ d.end_time = Some(MaxX)}}

\* the texts typed into the entries of the CdA panel
PHighTexts == {Str(""), NumText(NaN), NumText(<<1, 1>>), NumText(<<2, 1>>)}

PLowTexts == {Str("abc"), NumText(<<1, 1>>)}

RhoTexts == {Str("abc"), NumText(NaN), NumText(Zero), NumText(<<1, 1>>)}

\* the texts typed into the entries of the set-pressure panel
SetpointCdaTexts ==
    {Str(""), NumText(NaN), NumText(<<-1, 1>>), NumText(Zero), NumText(<<1, 1>>)}

SetpointMdotTexts == {Str(""), NumText(<<1, 1>>), NumText(Huge)}

SetpointRhoTexts == {Str("abc"), NumText(Zero), NumText(<<1000, 1>>)}

ManifoldTexts == {Str("abc"), NumText(<<500, 1>>)}

\* the analyzer with the venturi file loaded (handlers.load_csv), with and
\* without a time column chosen
AnalyzerContexts ==
    {NoCtx,
     [df |-> Some(VenturiFile), time_col |-> None],
     [df |-> Some(VenturiFile), time_col |-> Some(n_Time)]}

\* the texts typed into the entries of the venturi window
A1Texts == {Str("abc"), NumText(Zero), NumText(<<1, 2>>)}

A2Texts == {NumText(NaN), NumText(Zero), NumText(<<1, 4>>), NumText(<<1, 2>>)}

CdTexts == {Str(""), NumText(Zero), NumText(<<1, 1>>), NumText(<<2, 1>>)}

YTexts == {NumText(<<1, 1>>), NumText(<<-1, 1>>)}

VenturiRhoTexts == {Str("x"), NumText(<<-1, 1>>), NumText(<<1, 1>>)}

InitData(c) ==
    /\ df = c.df
    /\ time_combo = c.time_combo /\ pressure_combo = c.pressure_combo
    /\ weight_combo = c.weight_combo
    /\ time_col = c.time_col /\ pressure_col = c.pressure_col
    /\ weight_col = c.weight_col
    /\ start_time = c.start_time /\ end_time = c.end_time
    /\ calculated_mdot = c.calculated_mdot
    /\ labels = [file |-> IF c.df = None THEN None ELSE Some(Val(c.df).columns),
                 start_time |-> c.start_time, end_time |-> c.end_time,
                 mdot |-> IF c.start_time = None THEN "--"
                          ELSE IF c.calculated_mdot # None THEN "value"
                          ELSE "No weight data"]

\* the entries of the CdA panel with which a rate gives a CdA
ValidPHigh == NumText(<<2, 1>>)

ValidPLow == NumText(<<1, 1>>)

ValidRho == NumText(<<1, 1>>)

\* the CdA panel's results left by an earlier Calculate with the rate mdot:
\* none, or those of the valid entries
PriorCda(mdot) ==
    LET out == EvalCda(ValidPHigh, ValidPLow, ValidRho, mdot)
    IN  {[cda |-> None, label |-> None, units |-> None]}
        \cup (IF out.kind = "ok"
              THEN {[cda |-> Some(out.value),
                     label |-> Some(Format(out.value, 8)),
                     units |-> Some(Format(TimesMillion(out.value), 2))]}
              ELSE {})

\* the set-pressure panel as constructed
InitSetpointPanel ==
    /\ setpoint_cda_var = Str("") /\ setpoint_mdot_var = Str("")
    /\ setpoint_rho_var = NumText(<<1000, 1>>)
    /\ manifold_p_var = NumText(<<500, 1>>)

\* the CdA panel as constructed
InitCdaPanel ==
    /\ p_high_var = Str("") /\ p_low_var = NumText(<<147, 10>>)
    /\ rho_var = NumText(<<1000, 1>>)
    /\ calculated_cda = None /\ result_label = None /\ result_units = None

\* the set pressure displayed by an earlier Calculate: none, or that of
\* valid entries
PriorSetpoint ==
    LET out == EvalSetpoint(NumText(<<1, 1>>), NumText(<<1, 1>>),
                            NumText(<<1000, 1>>), NumText(<<500, 1>>))
    IN  {[label |-> None, pa |-> None],
         [label |-> Some([p_set |-> out.value, unit |-> "PSI"]),
          pa |-> Some([p_set |-> out.value, unit |-> "Pa"])]}

\* a venturi window with its two columns chosen
ChosenVenturi ==
    [NewVenturiWindow EXCEPT !.p1_col_var = n_P1, !.p2_col_var = n_P2]

\* ... and at most one entry retyped since its construction
RetypedVenturi ==
    {[ChosenVenturi EXCEPT !.a1_var = a1] : a1 \in A1Texts}
    \cup {[ChosenVenturi EXCEPT !.a2_var = a2] : a2 \in A2Texts}
    \cup {[ChosenVenturi EXCEPT !.cd_var = cd] : cd \in CdTexts}
    \cup {[ChosenVenturi EXCEPT !.y_var = y] : y \in YTexts}
    \cup {[ChosenVenturi EXCEPT !.rho_var = rho] : rho \in VenturiRhoTexts}

\* the venturi window after a Calculate with the entries as constructed
\* drew the whole file
PlottedVenturi(c) ==
    LET out == EvalVenturi(ChosenVenturi, c, 1..Len(Val(c.df).rows), 1)
    IN  [ChosenVenturi EXCEPT !.plot = Some(NewPlot(-1, out.value)),
                  !.plots = 1,
                  !.result_label = Some(-1)]

\* the calculator as constructed, or with the whole of FileA confirmed
FreshOrRated ==
    \/ df = None
    \/ df = Some(FileA) /\ start_time = Some(0) /\ end_time = Some(MaxX)

\* Either the calculator in one of its data states with texts typed into
\* one of its panels, or a venturi window with texts typed into its
\* entries, each with or without the results of an earlier calculation;
\* everything else is as constructed.
InitEval ==
    /\ pw = NoWindow
    /\ grab = None
    /\ InitHist /\ InitLauncher
    /\ last_op = <<"init">>
    /\ msgbox = None
    /\ probe = NoProbe
    /\ dialog = NoDialog
    /\ \E c \in CalculatorData : InitData(c)
    /\ \/ /\ FreshOrRated
          /\ p_high_var \in PHighTexts
          /\ p_low_var \in PLowTexts
          /\ rho_var \in RhoTexts
          /\ \E prior \in PriorCda(calculated_mdot) :
                /\ calculated_cda = prior.cda
                /\ result_label = prior.label
                /\ result_units = prior.units
          /\ InitSetpointPanel
          /\ setpoint_result_label = None /\ setpoint_result_pa = None
          /\ InitVenturi
          /\ figs = {} /\ handlers = {}
       \/ /\ p_high_var = ValidPHigh /\ p_low_var = ValidPLow /\ rho_var = ValidRho
          /\ calculated_cda = None /\ result_label = None /\ result_units = None
          /\ InitSetpointPanel
          /\ setpoint_result_label = None /\ setpoint_result_pa = None
          /\ InitVenturi
          /\ figs = {} /\ handlers = {}
       \/ /\ FreshOrRated
          /\ InitCdaPanel
          /\ setpoint_cda_var \in SetpointCdaTexts
          /\ setpoint_mdot_var \in SetpointMdotTexts
          /\ setpoint_rho_var \in SetpointRhoTexts
          /\ manifold_p_var \in ManifoldTexts
          /\ \E prior \in PriorSetpoint :
                /\ setpoint_result_label = prior.label
                /\ setpoint_result_pa = prior.pa
          /\ InitVenturi
          /\ figs = {} /\ handlers = {}
       \/ /\ df = None
          /\ InitCdaPanel
          /\ InitSetpointPanel
          /\ setpoint_result_label = None /\ setpoint_result_pa = None
          /\ ctx \in AnalyzerContexts
          /\ \/ vw = NoVenturi /\ figs = {} /\ handlers = {}
             \/ /\ ctx.df # None /\ ctx.time_col # None
                /\ \E w \in {NewVenturiWindow} \cup RetypedVenturi :
                     \/ vw = w /\ figs = {} /\ handlers = {}
                     \/ /\ vw = [PlottedVenturi(ctx) EXCEPT
                                   !.a1_var = w.a1_var, !.a2_var = w.a2_var,
                                   !.cd_var = w.cd_var, !.y_var = w.y_var,
                                   !.rho_var = w.rho_var]
                        /\ figs = {-1} /\ handlers = {-1}

\* one more button pressed, MaxPresses of them in a run
Press == ops < MaxPresses /\ ops' = ops + 1

NextEval ==
    \/ OpenPlotWindowRefused /\ UNCHANGED <<probe, eval_vars, ven_vars, nav_vars>>
    \/ Press /\ \E which \in {"high", "low"} : UseAvgPressure(which)
    \/ Press /\ SetAmbientPressure
    \/ Press /\ SelectPLowColumn
    \/ Press /\ \E col \in ComboValues : DialogSelectColumn(col)
    \/ Press /\ ApplyColumn
    \/ Press /\ DialogClose
    \/ Press /\ CalculateCda
    \/ Press /\ CalculateSetpoint
    \/ Press /\ CopyCdaToSetpoint
    \/ Press /\ CopyMdotToSetpoint
    \/ Press /\ \E d \in SetpointDensities : SetSetpointDensity(d)
    \/ Press /\ VenturiRun
    \/ Press /\ \E which \in {"p1", "p2"}, col \in VenturiColumns :
                  VenturiSelectColumn(which, col)
    \/ Press /\ \E d \in FLUID_DENSITIES : VenturiSetDensity(d)
    \/ Press /\ CalculateAndPlot
    \/ Press /\ VenturiClose

SpecEval == InitEval /\ [][NextEval]_vars

\* ------------------------------------------------------------------------
\* Properties of the time-range selector
\* ------------------------------------------------------------------------

Min(a, b) == IF a <= b THEN a ELSE b

Max(a, b) == IF a <= b THEN b ELSE a

LastClick(branch) == Len(last_op) = 3 /\ last_op[1] = "click" /\ last_op[2] = branch

Window == <<start_time, end_time, calculated_mdot>>

\* C1: whenever the selector's start_time and end_time are both set,
\* start_time <= end_time; and a second click at x2 after a first click at
\* x1 completes the window (min(x1, x2), max(x1, x2)).
C1_StartNotAfterEnd ==
    /\ [](pw.start_time # None /\ pw.end_time # None
            => Val(pw.start_time) <= Val(pw.end_time))
    /\ [][\A ev \in Events(pw) :
            PlotClick(ev) /\ ClickBranch(pw, ev) = "second"
            => /\ pw'.start_time = Some(Min(Val(pw.start_time), Val(ev.xdata)))
               /\ pw'.end_time = Some(Max(Val(pw.start_time), Val(ev.xdata)))]_vars

\* a pair completed by a second click to the left of the first
C1_Witness ==
    /\ LastClick("second")
    /\ last_op[3].xdata = pw.start_time
    /\ Val(pw.start_time) < Val(pw.end_time)

\* C2: Confirm is enabled exactly when start_time and end_time are both
\* set; it is disabled after construction, after a first click and after
\* Reset.
C2_ConfirmIffComplete ==
    /\ pw.confirm_btn = "normal" <=> (pw.start_time # None /\ pw.end_time # None)
    /\ (last_op = <<"open">> \/ last_op[1] = "reset" \/ LastClick("first"))
         => pw.confirm_btn = "disabled"

\* an open selector holding the widest pair, with Confirm enabled
C2_Witness ==
    /\ pw.win = "open"
    /\ pw.confirm_btn = "normal"
    /\ pw.start_time = Some(0) /\ pw.end_time = Some(MaxX)

\* C3: a first click of a pair, from Empty or from Complete, sets start to
\* the click x-coordinate, unsets end, disables Confirm and leaves the
\* selector in StartSet.
C3_FirstClick ==
    LastClick("first")
      => /\ pw.start_time = last_op[3].xdata
         /\ pw.end_time = None
         /\ pw.confirm_btn = "disabled"
         /\ Phase(pw) = "StartSet"
         /\ pw.click_count = 1

\* a first click that follows a completed pair with another start
C3_Witness ==
    /\ LastClick("first")
    /\ nclicks = 3
    /\ pw.start_time = Some(MaxX)
    /\ pw.end_time = None

\* C4: click_count is 0 or 1 between events and is 0 after a completed
\* pair; with no Reset between them the k-th in-axes click is a start click
\* when k is odd and an end click when k is even, and the third click
\* begins a new pair instead of changing the completed one.
C4_ClickCycle ==
    /\ pw.click_count \in {0, 1}
    /\ LastClick("second") => pw.click_count = 0 /\ nclicks % 2 = 0
    /\ LastClick("first") => pw.click_count = 1 /\ nclicks % 2 = 1
    /\ ~LastClick("counted")
    /\ LastClick("first") /\ nclicks = 3
         => pw.start_time = last_op[3].xdata /\ pw.end_time = None

\* a fourth click, completing the second pair
C4_Witness ==
    /\ LastClick("second")
    /\ nclicks = 4
    /\ Phase(pw) = "Complete"

\* C5: Reset clears start, end and the click counter and disables Confirm
\* (the selector is Empty), and the first click after a Reset is a start
\* click.
C5_Reset ==
    /\ [](last_op[1] = "reset"
            => /\ pw.start_time = None /\ pw.end_time = None
               /\ pw.click_count = 0
               /\ pw.confirm_btn = "disabled"
               /\ pw.start_line = None /\ pw.end_line = None
               /\ pw.start_line2 = None /\ pw.end_line2 = None)
    /\ [][/\ last_op[1] = "reset" \/ (LastClick("ignored") /\ nclicks = 0)
          /\ last_op'[1] = "click" /\ last_op'[2] # "ignored"
          => last_op'[2] = "first" /\ Phase(pw') = "StartSet"]_vars

\* a Reset of a selector that held a completed pair
C5_Witness ==
    /\ last_op = <<"reset", "Complete">>
    /\ Phase(pw) = "Empty"
    /\ pw.win = "open"

\* C6: Confirm delivers exactly one callback, while the selector still
\* exists, with the selector's (start, end) pair and the rate computed for
\* that pair, and then destroys the selector; the calculator's start_time,
\* end_time and calculated_mdot are then the delivered values; no callback
\* is delivered by a selector that is closed.
C6_ConfirmEmits ==
    /\ [](last_op = <<"confirm">>
            => /\ callbacks = 1
               /\ emitted.win = "open"
               /\ pw.win = "destroyed"
               /\ Window = <<emitted.start, emitted.end, emitted.mdot>>)
    /\ [][last_op' = <<"confirm">>
            => /\ Phase(pw) = "Complete"
               /\ emitted'.start = pw.start_time
               /\ emitted'.end = pw.end_time
               /\ emitted'.mdot \in CalculateMdot(pw)
               /\ emitted'.n = emitted.n + 1]_vars
    /\ [][pw.win # "open" => emitted' = emitted]_vars

\* a confirmed pair with distinct ends and a defined rate
C6_Witness ==
    /\ last_op = <<"confirm">>
    /\ calculated_mdot # None
    /\ Val(start_time) < Val(end_time)

\* C7: Cancel or window close, from Empty, StartSet or Complete, destroys
\* the selector without a callback: the calculator's start_time, end_time
\* and calculated_mdot are what they were when the selector was opened.
C7_CloseEmitsNothing ==
    last_op[1] = "close"
      => /\ pw.win = "destroyed"
         /\ callbacks = 0
         /\ Window = at_open

\* a completed pair cancelled in a calculator that holds an earlier window
C7_Witness ==
    /\ last_op = <<"close", "Complete">>
    /\ start_time # None
    /\ Window = at_open

\* C8: a selector that is closed, by Confirm, Cancel, window close or a
\* failed plot creation, has its click handler disconnected, its figure
\* closed and no input grab; every open figure, connected handler and held
\* grab belongs to the selector that is open.
C8_ResourcesReleased ==
    /\ \A id \in figs \cup handlers : pw.win = "open" /\ pw.id = id
    /\ grab # None => pw.win = "open" /\ grab = Some(pw.id)
    /\ pw.win = "destroyed" => pw.cid = None /\ pw.fig = None
    /\ pw.win = "open"
         => /\ pw.fig = Some(pw.id) /\ pw.id \in figs
            /\ pw.cid = Some(pw.id) /\ pw.id \in handlers
            /\ grab = Some(pw.id)

\* a second selector whose plot creation failed, after a first one was
\* confirmed and closed
C8_Witness ==
    /\ last_op = <<"open_failed">>
    /\ opens = 2
    /\ emitted.n = 1
    /\ pw.win = "destroyed"
    /\ figs = {} /\ handlers = {} /\ grab = None

\* C9: after a successful load the column selection holds columns of the
\* new file only, and no time window or rate is in effect.
C9_LoadResets ==
    last_op = <<"load">>
      => /\ \A c \in {time_combo, pressure_combo, weight_combo} :
               c = Empty \/ c \in ComboValues
         /\ \A c \in time_col \cup pressure_col \cup weight_col :
               c = Empty \/ c \in ComboValues
         /\ start_time = None /\ end_time = None
         /\ calculated_mdot = None

\* ------------------------------------------------------------------------
\* Properties of the rate estimator
\* ------------------------------------------------------------------------

\* the rows of a selector's table that lie in its window and have a valid
\* time and a valid weight, read from the table itself
ValidSamples(w) ==
    IF w.start_time = None \/ w.end_time = None \/ w.weight_col = Empty THEN {}
    ELSE LET time == Val(ParseTimeColumn(Column(w.df, w.time_col)))
             weight == Column(w.df, w.weight_col)
         IN  {i \in DOMAIN time :
                /\ time[i] # None
                /\ ToNumeric(weight[i]) # None
                /\ Val(w.start_time) <= Val(time[i])
                /\ Val(time[i]) <= Val(w.end_time)}

SampleTimes(w) ==
    {Val(Val(ParseTimeColumn(Column(w.df, w.time_col)))[i]) : i \in ValidSamples(w)}

\* C10: the rate estimator returns None when the window is unset, when no
\* weight column is selected, and when fewer than two rows in the window
\* have a valid time and a valid weight; with at least two such rows at
\* different times it returns a finite value.
C10_RateDefined ==
    probe.done
      => /\ (\/ probe.w.start_time = None
             \/ probe.w.end_time = None
             \/ probe.w.weight_col = Empty
             \/ Cardinality(ValidSamples(probe.w)) < 2)
              => probe.out = None
         /\ (Cardinality(ValidSamples(probe.w)) >= 2
             /\ Cardinality(SampleTimes(probe.w)) >= 2)
              => /\ probe.out # None
                 /\ Val(probe.out) # NaN
                 /\ Val(probe.out)[2] > 0

\* two rows of the window are fitted while a third row of the window has
\* no weight
C10_Witness ==
    /\ probe.done
    /\ probe.out # None
    /\ Cardinality(ValidSamples(probe.w)) = 2
    /\ Cardinality(SampleTimes(probe.w)) = 2
    /\ \E i \in 1..Len(probe.w.df.rows) :
          /\ probe.w.df.rows[i][1] = Num(1)
          /\ probe.w.df.rows[i][3] = Text
          /\ probe.w.start_time = Some(0) /\ probe.w.end_time = Some(2)

\* the time and the weight of row i of a selector's table, read from the
\* table itself
SampleTime(w, i) == Val(Val(ParseTimeColumn(Column(w.df, w.time_col)))[i])

SampleWeight(w, i) == Val(ToNumeric(Column(w.df, w.weight_col)[i]))

\* the sum over the pairs {i, j} of I of (f[i] - f[j]) * (g[i] - g[j]); the
\* least-squares slope of g over f is PairSum(I, f, g) / PairSum(I, f, f)
PairSum(I, f, g) ==
    LET P == {p \in I \X I : p[1] < p[2]}
    IN  SumOver(P, [p \in P |-> (f[p[1]] - f[p[2]]) * (g[p[1]] - g[p[2]])])

\* C11: with at least two valid samples at different times, the rate is the
\* negated least-squares slope of weight over time, times 0.453592, taken
\* over exactly the rows with start <= t <= end whose time and weight are
\* both present; a weight that strictly decreases with time gives a positive
\* rate and one that strictly increases gives a negative rate.
C11_RateIsNegatedSlope ==
    (probe.done /\ Cardinality(ValidSamples(probe.w)) >= 2
                /\ Cardinality(SampleTimes(probe.w)) >= 2)
      => LET I == ValidSamples(probe.w)
             t == [i \in I |-> SampleTime(probe.w, i)]
             wt == [i \in I |-> SampleWeight(probe.w, i)]
             falling == \A i, j \in I : t[i] < t[j] => wt[i] > wt[j]
             rising == \A i, j \in I : t[i] < t[j] => wt[i] < wt[j]
         IN  /\ probe.out = Some(Fraction(-(PairSum(I, t, wt) * 453592),
                                          PairSum(I, t, t) * 1000000))
             /\ falling => Val(probe.out)[1] > 0
             /\ rising => Val(probe.out)[1] < 0

\* a window whose bounds are the times of its two samples, with a third
\* valid row outside it, and a weight falling inside it
C11_Witness ==
    /\ probe.done
    /\ probe.w.start_time = Some(1) /\ probe.w.end_time = Some(2)
    /\ Len(probe.w.df.rows) = 3
    /\ probe.w.df.rows[1] = <<Num(0), Num(1), Num(0)>>
    /\ probe.w.df.rows[2] = <<Num(1), Num(1), Num(1)>>
    /\ probe.w.df.rows[3] = <<Num(2), Num(1), Num(0)>>
    /\ ValidSamples(probe.w) = {2, 3}
    /\ Val(probe.out)[1] > 0

\* ------------------------------------------------------------------------
\* Properties of the notifications
\* ------------------------------------------------------------------------

\* C12: a Confirm of a window that holds fewer than two valid samples shows
\* a messagebox and leaves the calculator's calculated_mdot None.
C12_DataErrorNotified ==
    [][(OnConfirm /\ pw.weight_col # Empty /\ Cardinality(ValidSamples(pw)) < 2)
         => msgbox' # None /\ calculated_mdot' = None]_vars

\* ------------------------------------------------------------------------
\* Properties of the panels' handlers
\* ------------------------------------------------------------------------

\* what C13 calls the calculator state: table, column selection, time
\* window, derived rate, stored CdA and input fields
CalculatorState ==
    <<df, time_combo, pressure_combo, weight_combo, time_col, pressure_col,
      weight_col, start_time, end_time, calculated_mdot, calculated_cda,
      entry_vars>>

\* an operation attempted before its prerequisite step
BeforePrerequisite ==
    \/ OpenPlotWindowRefused
    \/ /\ \E which \in {"high", "low"} : UseAvgPressure(which)
       /\ start_time = None \/ end_time = None
    \/ /\ SelectPLowColumn
       /\ start_time = None \/ end_time = None
    \/ /\ CalculateCda
       /\ calculated_mdot = None
    \/ /\ VenturiRun
       /\ ctx.df = None

\* C13: an operation attempted before its prerequisite step (the selector
\* opened with no file or with no time or pressure column, Use Avg or
\* P_low From CSV with no time window, Calculate CdA with no rate, the
\* venturi window opened with no file) shows a notification and leaves the
\* calculator state unchanged; neither a selector, nor a dialog, nor a
\* venturi window is opened.
C13_PrerequisiteAborts ==
    [][BeforePrerequisite
         => /\ msgbox' # None
            /\ UNCHANGED CalculatorState
            /\ UNCHANGED <<pw, dialog, vw>>]_vars

\* Calculate CdA was pressed with numeric entries and no rate, and was
\* refused
C13_Witness ==
    /\ last_op = <<"calculate_cda", "prerequisite">>
    /\ calculated_mdot = None
    /\ ParseFloat(p_high_var) # None
    /\ msgbox = Some("Please select time range to calculate mdot first.")

\* a Calculate that failed on a non-numeric entry or on a value out of
\* range
FailedCalculate ==
    /\ CalculateCda \/ CalculateSetpoint \/ CalculateAndPlot
    /\ last_op'[2] \in {"input", "domain"}

\* C14: a Calculate (CdA, set pressure or venturi) that fails on a
\* non-numeric entry or on an out-of-range value shows a message and
\* changes nothing else: the stored CdA, the result labels of both panels,
\* the venturi window with its plot and result label, the figures and the
\* entries are as before, and the panel (the venturi window) still accepts
\* input.
C14_FailedCalculateMutatesNothing ==
    [][FailedCalculate
         => /\ msgbox' # None
            /\ UNCHANGED <<calc_vars, pw, env_vars, eval_vars, ven_vars, nav_vars>>
            /\ (CalculateAndPlot => vw'.win = "open")
            /\ (CalculateCda \/ CalculateSetpoint => PanelAcceptsInput')]_vars

\* a venturi Calculate failed on a non-numeric entry with a plot drawn
C14_Witness ==
    /\ last_op = <<"venturi_calculate", "input">>
    /\ msgbox = Some("Invalid input value")
    /\ vw.plot # None
    /\ vw.result_label # None

\* The texts of an evaluator's entries all parse as numbers.
CdaEntriesParse ==
    ParseFloat(p_high_var) # None /\ ParseFloat(p_low_var) # None /\ ParseFloat(rho_var) # None

SetpointEntriesParse ==
    /\ ParseFloat(setpoint_cda_var) # None /\ ParseFloat(setpoint_mdot_var) # None
    /\ ParseFloat(setpoint_rho_var) # None /\ ParseFloat(manifold_p_var) # None

VenturiEntriesParse ==
    /\ ParseFloat(vw.a1_var) # None /\ ParseFloat(vw.a2_var) # None
    /\ ParseFloat(vw.cd_var) # None /\ ParseFloat(vw.y_var) # None
    /\ ParseFloat(vw.rho_var) # None

\* The entries lie outside the evaluator's validity constraints.
CdaOutside ==
    \/ FLe(Val(ParseFloat(p_high_var)), Val(ParseFloat(p_low_var)))
    \/ FLe(Val(ParseFloat(rho_var)), Zero)

SetpointOutside ==
    \/ NonPositive(Val(ParseFloat(setpoint_cda_var)))
    \/ FLe(Val(ParseFloat(setpoint_rho_var)), Zero)

VenturiOutside ==
    \/ FLe(Val(ParseFloat(vw.a1_var)), Zero)
    \/ FLe(Val(ParseFloat(vw.a2_var)), Zero)
    \/ FLe(Val(ParseFloat(vw.a1_var)), Val(ParseFloat(vw.a2_var)))
    \/ FLe(Val(ParseFloat(vw.cd_var)), Zero)
    \/ FLt(<<1, 1>>, Val(ParseFloat(vw.cd_var)))

\* The messages shown for non-numeric text.
InputMessages ==
    {Some("Please enter valid numeric values for all parameters."),
     Some("Please enter valid numeric values for all inputs."),
     Some("Invalid input value")}

\* A step ends in the domain error, or in a result.
DomainError == last_op'[2] = "domain" /\ msgbox' \notin InputMessages \cup {None}

InputError == last_op'[2] = "input" /\ msgbox' \in InputMessages

\* C15: each evaluator answers non-numeric text with the input error,
\* numbers outside its validity constraints (CdA: P_high <= P_low, rho <= 0;
\* set pressure: CdA <= 0, rho <= 0; venturi: A1 <= 0, A2 <= 0, A2 >= A1,
\* Cd <= 0, Cd > 1) with a different, domain error, and every other numeric
\* input with a result.  The CdA evaluator is taken with a rate selected and
\* the venturi evaluator with both columns chosen and numeric rows to plot.
C15_RejectsExactlyInvalidInputs ==
    [][/\ CalculateCda /\ calculated_mdot # None =>
            IF ~CdaEntriesParse THEN InputError
            ELSE IF CdaOutside THEN DomainError
            ELSE last_op'[2] = "ok" /\ msgbox' = None /\ result_label' # None
       /\ CalculateSetpoint =>
            IF ~SetpointEntriesParse THEN InputError
            ELSE IF SetpointOutside THEN DomainError
            ELSE last_op'[2] = "ok" /\ msgbox' = None /\ setpoint_result_label' # None
       /\ CalculateAndPlot /\ vw.p1_col_var # Empty /\ vw.p2_col_var # Empty =>
            IF ~VenturiEntriesParse THEN InputError
            ELSE IF VenturiOutside THEN DomainError
            ELSE \/ last_op'[2] = "ok" /\ msgbox' = None /\ vw'.result_label # None
                 \/ last_op'[2] \in {"data", "empty"}]_vars

\* C15 but for the set-pressure evaluator's overflow.
C15_ExceptOverflow ==
    [][/\ CalculateCda /\ calculated_mdot # None =>
            IF ~CdaEntriesParse THEN InputError
            ELSE IF CdaOutside THEN DomainError
            ELSE last_op'[2] = "ok" /\ msgbox' = None /\ result_label' # None
       /\ CalculateSetpoint =>
            IF ~SetpointEntriesParse THEN InputError
            ELSE IF SetpointOutside THEN DomainError
            ELSE IF Val(ParseFloat(setpoint_mdot_var)) = Huge
                    /\ Val(ParseFloat(setpoint_cda_var)) # NaN
            THEN last_op'[2] = "error" /\ msgbox' = Some("Calculation failed")
                 /\ UNCHANGED <<setpoint_result_label, setpoint_result_pa>>
            ELSE last_op'[2] = "ok" /\ msgbox' = None /\ setpoint_result_label' # None
       /\ CalculateAndPlot /\ vw.p1_col_var # Empty /\ vw.p2_col_var # Empty =>
            IF ~VenturiEntriesParse THEN InputError
            ELSE IF VenturiOutside THEN DomainError
            ELSE \/ last_op'[2] = "ok" /\ msgbox' = None /\ vw'.result_label # None
                 \/ last_op'[2] \in {"data", "empty"}]_vars

\* Where a result can be kept for a dependent panel: the calculator's result
\* attributes and the entries of its panels.
HandOffState == <<calculated_mdot, calculated_cda, entry_vars>>

\* C16: a successful calculation of each of the three evaluators stores its
\* result for hand-off: the stored CdA is the value just computed, a
\* successful set-pressure or venturi calculation writes the hand-off state,
\* and 'Use Calculated' puts the stored CdA itself into the set-pressure panel.
C16_ResultsStoredForHandOff ==
    [][/\ CalculateCda /\ last_op'[2] = "ok" =>
            calculated_cda' = Some(EvalCda(p_high_var, p_low_var, rho_var,
                                           calculated_mdot).value)
       /\ CopyCdaToSetpoint /\ calculated_cda # None =>
            ParseFloat(setpoint_cda_var') = calculated_cda
       /\ CalculateSetpoint /\ last_op'[2] = "ok" => ~UNCHANGED HandOffState
       /\ CalculateAndPlot /\ last_op'[2] = "ok" => ~UNCHANGED HandOffState]_vars

\* What does hold: the CdA is stored as computed, 'Use Calculated' enters it
\* rounded to 10 decimal places, and the other two evaluators only display.
C16_OnlyCdaStored ==
    [][/\ CalculateCda /\ last_op'[2] = "ok" =>
            calculated_cda' = Some(EvalCda(p_high_var, p_low_var, rho_var,
                                           calculated_mdot).value)
       /\ CopyCdaToSetpoint /\ calculated_cda # None =>
            ParseFloat(setpoint_cda_var') = Some(Rounded(Val(calculated_cda), 10))
       /\ CalculateSetpoint \/ CalculateAndPlot => UNCHANGED HandOffState]_vars

\* ------------------------------------------------------------------------
\* Auto-detection over the headers of loaded files
\* ------------------------------------------------------------------------

n_PressTime == <<"P", "r", "e", "s", "s", "T", "i", "m", "e">>

\* names for every keyword, one that contains two keywords and one that
\* contains none
DetectNames == {n_Time, n_t, n_Pressure, n_press, n_Weight, n_mass, n_PressTime, n_Note}

\* the files with up to MaxCols different columns and no rows
DetectFiles ==
    {[columns |-> cols, rows |-> << >>] :
        cols \in {c \in UNION {[1..n -> DetectNames] : n \in 1..MaxCols} :
                    \A i, j \in DOMAIN c : c[i] = c[j] => i = j}}

\* The calculator as constructed loads one header after another.
NextDetect ==
    /\ \E file \in DetectFiles : Press /\ LoadCsv(file)
    /\ UNCHANGED <<probe, eval_vars, ven_vars, nav_vars>>

SpecDetect == Init /\ [][NextDetect]_vars

FirstOf(S) == CHOOSE x \in S : \A y \in S : x <= y

LastOf(S) == CHOOSE x \in S : \A y \in S : y <= x

\* What a load leaves in a combobox and its attribute: the selection before
\* the load if keep holds or no column is a candidate, otherwise the
\* candidate at index pick.
Detected(combo_before, col_before, combo_after, col_after, keep, candidates, pick) ==
    IF keep \/ candidates = {}
    THEN combo_after = combo_before /\ col_after = col_before
    ELSE combo_after = Val(df').columns[pick] /\ col_after = Some(combo_after)

\* the indices of the loaded header whose name contains a keyword of the category
TimeMatches == {i \in DOMAIN Val(df').columns : IsTimeName(Val(df').columns[i])}

PressureMatches == {i \in DOMAIN Val(df').columns : IsPressureName(Val(df').columns[i])}

WeightMatches == {i \in DOMAIN Val(df').columns : IsWeightName(Val(df').columns[i])}

\* C17 as stated: on a load, time goes to the last column whose name matches
\* a time keyword; pressure and weight, if their selection is empty, go to
\* the first column whose name matches a keyword of the category and are
\* otherwise kept; a column matching no keyword is never assigned.
C17_Original ==
    [][(\E file \in DetectFiles : LoadCsv(file)) =>
          /\ Detected(time_combo, time_col, time_combo', time_col', FALSE,
                      TimeMatches, LastOf(TimeMatches))
          /\ Detected(pressure_combo, pressure_col, pressure_combo', pressure_col',
                      pressure_combo # Empty, PressureMatches, FirstOf(PressureMatches))
          /\ Detected(weight_combo, weight_col, weight_combo', weight_col',
                      weight_combo # Empty, WeightMatches, FirstOf(WeightMatches))]_vars

\* C17: the same, with each column counted for one category only, time
\* before pressure before weight: pressure goes to the first column that
\* matches a pressure keyword and no time keyword, weight to the first that
\* matches a weight keyword and neither a time nor a pressure keyword.
C17_AutodetectFirstAndLast ==
    [][(\E file \in DetectFiles : LoadCsv(file)) =>
          /\ Detected(time_combo, time_col, time_combo', time_col', FALSE,
                      TimeMatches, LastOf(TimeMatches))
          /\ Detected(pressure_combo, pressure_col, pressure_combo', pressure_col',
                      pressure_combo # Empty, PressureMatches \ TimeMatches,
                      FirstOf(PressureMatches \ TimeMatches))
          /\ Detected(weight_combo, weight_col, weight_combo', weight_col',
                      weight_combo # Empty,
                      WeightMatches \ (TimeMatches \cup PressureMatches),
                      FirstOf(WeightMatches \ (TimeMatches \cup PressureMatches)))]_vars

\* A second load found two time columns and two pressure columns: time moved
\* to the last one, pressure stayed with the earlier file's column.
C17_Witness ==
    /\ last_op = <<"load">>
    /\ ops = 2
    /\ Val(df).columns = <<n_Time, n_PressTime, n_Pressure>>
    /\ time_combo = n_PressTime
    /\ pressure_combo = n_press
    /\ weight_combo = Empty

\* ------------------------------------------------------------------------
\* Downsampling of the selector plot
\* ------------------------------------------------------------------------

MAX_PLOT_POINTS == 2000

\* np.arange(0, stop, step) for step >= 1
Arange(stop, step) == {k * step : k \in 0..((stop - 1) \div step)}

\* the plot_indices of _create_plot for n_points valid samples
PlotIndices(n_points) ==
    IF n_points > MAX_PLOT_POINTS
    THEN Arange(n_points, Max(1, n_points \div MAX_PLOT_POINTS))
    ELSE 0..(n_points - 1)

\* the indices _downsample_data(data, max_points) returns for len(data) = n
\* and max_points >= 1
DownsampleData(n, max_points) ==
    IF n <= max_points THEN 0..(n - 1)
    ELSE Arange(n, n \div max_points)

\* the values of max_points the model passes to _downsample_data
PointLimits == {1, 3, MAX_PLOT_POINTS}

\* A plot of n valid samples is about to be drawn.
InitPlot ==
    /\ InitCalculator /\ pw = NoWindow /\ InitEnv /\ InitHist /\ InitLauncher
    /\ last_op = <<"init">> /\ msgbox = None /\ InitPanels /\ InitVenturi
    /\ probe \in {[w |-> n, done |-> FALSE, out |-> None] : n \in 0..MaxSamples}

\* the downsampling step of _create_plot
ApplyPlotIndices ==
    /\ ~probe.done
    /\ probe' = [probe EXCEPT !.done = TRUE,
                              !.out = Some([limit |-> MAX_PLOT_POINTS,
                                            points |-> Cardinality(PlotIndices(probe.w))])]
    /\ last_op' = <<"create_plot">>
    /\ UNCHANGED <<calc_vars, pw, env_vars, hist_vars, msgbox, eval_vars, ven_vars, nav_vars>>

\* a call of _downsample_data
ApplyDownsampleData ==
    /\ ~probe.done
    /\ \E max_points \in PointLimits :
          probe' = [probe EXCEPT !.done = TRUE,
                                 !.out = Some([limit |-> max_points,
                                               points |-> Cardinality(
                                                   DownsampleData(probe.w, max_points))])]
    /\ last_op' = <<"downsample_data">>
    /\ UNCHANGED <<calc_vars, pw, env_vars, hist_vars, msgbox, eval_vars, ven_vars, nav_vars>>

NextPlot == ApplyPlotIndices \/ ApplyDownsampleData

SpecPlot == InitPlot /\ [][NextPlot]_vars

\* C18: the number of points left by the plot's downsampling, and by
\* _downsample_data, never exceeds the maximum it was given.
C18_PlotPointsBounded ==
    probe.done => Val(probe.out).points <= Val(probe.out).limit

\* What does hold: fewer than twice the maximum, and no more than the samples.
C18_FewerThanTwiceTheMaximum ==
    probe.done => /\ Val(probe.out).points < 2 * Val(probe.out).limit
                  /\ Val(probe.out).points <= probe.w
                  /\ (probe.w <= Val(probe.out).limit => Val(probe.out).points = probe.w)

\* ------------------------------------------------------------------------
\* The rate estimator on tables with rows the plot leaves out
\* ------------------------------------------------------------------------

\* a pressure cell: present, or missing
PressureCells == {Num(1), Text}

\* tables with numeric times whose rows may lack the pressure or the weight
DecimatedTables ==
    {[columns |-> <<n_Time, n_Pressure, n_Weight>>, rows |-> rows] :
        rows \in SeqsUpTo({<<Num(t), p, w>> : t \in X, p \in PressureCells,
                                               w \in WeightCells}, MaxRows)}

\* the open selectors over these tables with a window selected
DecimatedInputs ==
    {[w EXCEPT !.start_time = Some(ab[1]), !.end_time = Some(ab[2])] :
        w \in {o \in {SelectorOn(table) : table \in DecimatedTables} : o.win = "open"},
        ab \in {p \in X \X X : p[1] <= p[2]}}

InitDecimated ==
    /\ InitCalculator /\ pw = NoWindow /\ InitEnv /\ InitHist /\ InitLauncher
    /\ last_op = <<"init">> /\ msgbox = None /\ InitPanels /\ InitVenturi
    /\ probe \in {[w |-> w, done |-> FALSE, out |-> None] : w \in DecimatedInputs}

SpecDecimated == InitDecimated /\ [][NextRate]_vars

\* the table with every pressure present: the plot leaves out none of its rows
AllPlotted(table) ==
    [table EXCEPT !.rows = [r \in DOMAIN table.rows |->
                              [table.rows[r] EXCEPT ![2] = Num(1)]]]

\* the rows of the selector's table the plot draws
PlottedRows(w) ==
    {i \in DOMAIN w.df.rows : ToNumeric(w.df.rows[i][2]) # None}

MixedTimeCells == {Text} \cup {Num(t) : t \in X} \cup {Ts(t) : t \in X}

InitTime ==
    /\ InitCalculator /\ pw = NoWindow /\ InitEnv /\ InitHist /\ InitLauncher
    /\ last_op = <<"init">> /\ msgbox = None /\ InitPanels /\ InitVenturi
    /\ probe \in {[w |-> col, done |-> FALSE, out |-> None] :
                     col \in SeqsUpTo(MixedTimeCells, MaxRows)}

\* the selector parses the column in _prepare_plot_data; _create_plot
\* reports the ValueError it raises
ApplyParseTimeColumn ==
    /\ ~probe.done
    /\ probe' = [probe EXCEPT !.done = TRUE, !.out = ParseTimeColumn(probe.w)]
    /\ msgbox' = IF ParseTimeColumn(probe.w) = None
                 THEN Some("Failed to create plot") ELSE None
    /\ last_op' = <<"prepare_plot_data">>
    /\ UNCHANGED <<calc_vars, pw, env_vars, hist_vars, eval_vars, ven_vars, nav_vars>>

\* the calculator parses the column in _get_numeric_time_data;
\* _use_avg_pressure and apply_column report the None it returns
ApplyGetNumericTimeData ==
    /\ ~probe.done
    /\ probe' = [probe EXCEPT !.done = TRUE, !.out = GetNumericTimeData(probe.w)]
    /\ msgbox' = IF GetNumericTimeData(probe.w) = None
                 THEN Some("Could not parse time data.") ELSE None
    /\ last_op' = <<"get_numeric_time_data">>
    /\ UNCHANGED <<calc_vars, pw, env_vars, hist_vars, eval_vars, ven_vars, nav_vars>>

NextTime == ApplyParseTimeColumn \/ ApplyGetNumericTimeData

SpecTime == InitTime /\ [][NextTime]_vars

\* the rows of the parsed column that hold a number, a timestamp
NumericRows == {i \in DOMAIN probe.w : probe.w[i].k = "num"}

StampRows == {i \in DOMAIN probe.w : probe.w[i].k = "ts"}

\* the numeric branch and the error branch of the parse
NumericOrError ==
    /\ NumericRows # {} =>
          /\ probe.out # None /\ msgbox = None
          /\ DOMAIN Val(probe.out) = DOMAIN probe.w
          /\ \A i \in DOMAIN probe.w :
                Val(probe.out)[i] = IF i \in NumericRows THEN Some(probe.w[i].v) ELSE None
    /\ (NumericRows = {} /\ StampRows = {}) => probe.out = None /\ msgbox # None
    /\ (NumericRows = {} /\ StampRows # {}) =>
          /\ probe.out # None /\ msgbox = None
          /\ DOMAIN Val(probe.out) = DOMAIN probe.w
          /\ \A i \in DOMAIN probe.w : (Val(probe.out)[i] # None) = (i \in StampRows)

\* C20 as stated: numeric values are used if any entry is numeric; otherwise
\* timestamps become seconds elapsed since the timestamp of row 0, which
\* maps to 0; with neither an error is reported and no time data produced.
C20_Original ==
    probe.done =>
      /\ NumericOrError
      /\ (NumericRows = {} /\ StampRows # {}) =>
            /\ Val(probe.out)[1] = Some(0)
            /\ \A i \in StampRows :
                  Val(probe.out)[i] = Some(probe.w[i].v - probe.w[1].v)

\* C20: the same, with the seconds counted from the earliest timestamp of
\* the column: differences between rows are the differences of their
\* timestamps, no value is negative, and the earliest timestamp maps to 0.
C20_TimeColumnParsing ==
    probe.done =>
      /\ NumericOrError
      /\ (NumericRows = {} /\ StampRows # {}) =>
            /\ \A i, j \in StampRows :
                  Val(Val(probe.out)[i]) - Val(Val(probe.out)[j])
                      = probe.w[i].v - probe.w[j].v
            /\ \A i \in StampRows : Val(Val(probe.out)[i]) >= 0
            /\ \E i \in StampRows : Val(probe.out)[i] = Some(0)

\* The calculator parsed timestamps that are not in order of time, with an
\* unparseable entry among them.
C20_Witness ==
    /\ probe.done
    /\ last_op = <<"get_numeric_time_data">>
    /\ probe.w = <<Ts(1), Text, Ts(0)>>
    /\ probe.out = Some(<<Some(1), None, Some(0)>>)

\* ------------------------------------------------------------------------
\* The venturi formula on one enumerated sample
\* ------------------------------------------------------------------------

\* a table with one row holding the pressures p1 and p2
OneSample(p1, p2) ==
    [columns |-> <<n_Time, n_P1, n_P2, n_Note>>,
     rows |-> << <<Num(0), Num(p1), Num(p2), Text>> >>]

\* venturi windows with both columns chosen and every combination of entries
SampleWindows ==
    {[NewVenturiWindow EXCEPT !.p1_col_var = n_P1, !.p2_col_var = n_P2,
                              !.a1_var = a1, !.a2_var = a2, !.cd_var = cd,
                              !.y_var = y, !.rho_var = rho] :
        a1 \in A1Texts, a2 \in A2Texts, cd \in CdTexts, y \in YTexts,
        rho \in VenturiRhoTexts}

InitSample ==
    /\ InitCalculator /\ pw = NoWindow /\ InitEnv /\ InitHist /\ InitLauncher
    /\ last_op = <<"init">> /\ msgbox = None /\ InitPanels /\ InitVenturi
    /\ probe \in {[w |-> [win |-> w, p1 |-> p1, p2 |-> p2], done |-> FALSE,
                     out |-> None] : w \in SampleWindows, p1 \in X, p2 \in X}

\* _calculate_and_plot up to its mdot array, on the one sample
ApplyEvalVenturi ==
    /\ ~probe.done
    /\ probe' = [probe EXCEPT
                    !.done = TRUE,
                    !.out = Some(EvalVenturi(
                                probe.w.win,
                                [df |-> Some(OneSample(probe.w.p1, probe.w.p2)),
                                 time_col |-> Some(n_Time)],
                                {1}, 1))]
    /\ last_op' = <<"venturi_calculate">>
    /\ UNCHANGED <<calc_vars, pw, env_vars, hist_vars, msgbox, eval_vars, ven_vars, nav_vars>>

NextSample == ApplyEvalVenturi

SpecSample == InitSample /\ [][NextSample]_vars

\* the entries passed validation and the sample was computed
SampleComputed == probe.done /\ Val(probe.out).kind = "ok"

\* the mass flow of the sample
SampleMdot == Val(probe.out).value.mdot[1]

\* a computed mass flow is below zero: a product cd * y * a2 * sqrt(...)
\* with a positive root and a negative coefficient
NegativeMdot(m) == Len(m) = 5 /\ FLt(m[2], Zero)

\* C21: a sample with P1 <= P2 has mass flow exactly 0, and with entries
\* that passed validation no sample's mass flow is negative or NaN.
C21_ClampedAndNonNegative ==
    SampleComputed =>
      /\ probe.w.p1 <= probe.w.p2 => SampleMdot = Zero
      /\ SampleMdot # NaN
      /\ ~NegativeMdot(SampleMdot)

\* What does hold: the clamp, no NaN, and a negative mass flow exactly for
\* P1 > P2 with a negative expansibility factor and a positive density.
C21_NegativeOnlyForNegativeY ==
    SampleComputed =>
      /\ probe.w.p1 <= probe.w.p2 => SampleMdot = Zero
      /\ SampleMdot # NaN
      /\ NegativeMdot(SampleMdot) <=>
            /\ probe.w.p1 > probe.w.p2
            /\ FLt(Val(ParseFloat(probe.w.win.y_var)), Zero)
            /\ FLt(Zero, Val(ParseFloat(probe.w.win.rho_var)))
            /\ Val(ParseFloat(probe.w.win.a2_var)) # NaN

\* ------------------------------------------------------------------------
\* The set-pressure formula evaluated
\* ------------------------------------------------------------------------

\* (mdot / cda) ** 2 for a cda that is a fraction or a quotient
\* num / sqrt(rad): mdot / cda is then (mdot / num) * sqrt(rad)
SquaredRatio(mdot, cda) ==
    CASE Len(cda) = 2 -> FMul(FDiv(mdot, cda), FDiv(mdot, cda))
      [] Len(cda) = 3 -> FMul(FMul(FDiv(mdot, cda[2]), FDiv(mdot, cda[2])), cda[3])

\* delta_p_pa of _calculate_setpoint without the factor 2 of the density
BadDeltaPPa(v) == FDiv(SquaredRatio(v.mdot, v.cda), v.rho)

\* delta_p_pa of _calculate_setpoint for the inputs v of a computed result
DeltaPPa(v) == FDiv(SquaredRatio(v.mdot, v.cda), FMul(<<2, 1>>, v.rho))

\* p_set_psi of _calculate_setpoint
PSetPsi(v) ==
    FDiv(FAdd(DeltaPPa(v), FMul(v.manifold_p_psi, PSI_TO_PA)), PSI_TO_PA)

\* rates, pressures and densities of the round trip
TripRates == {<<-1, 1>>, Zero, <<1, 2>>, <<1, 1>>, <<2, 1>>}

TripPressures == {<<x, 1>> : x \in 0..(MaxX + 1)}

TripDensities == {Zero, <<1, 1>>, <<1000, 1>>}

InitTrip ==
    /\ InitCalculator /\ pw = NoWindow /\ InitEnv /\ InitHist /\ InitLauncher
    /\ last_op = <<"init">> /\ msgbox = None /\ InitPanels /\ InitVenturi
    /\ probe \in {[w |-> [mdot |-> m, p_high |-> ph, p_low |-> pl, rho |-> rho],
                     done |-> FALSE, out |-> None] :
                       m \in TripRates, ph \in TripPressures, pl \in TripPressures,
                       rho \in TripDensities}

\* _calculate_cda on the inputs, then _calculate_setpoint on its CdA, the
\* same rate and density, and P_low as the manifold pressure
ApplyRoundTrip ==
    /\ ~probe.done
    /\ LET cda == EvalCda(NumText(probe.w.p_high), NumText(probe.w.p_low),
                          NumText(probe.w.rho), Some(probe.w.mdot))
           back == EvalSetpoint(NumText(cda.value), NumText(probe.w.mdot),
                                NumText(probe.w.rho), NumText(probe.w.p_low))
       IN  probe' = [probe EXCEPT !.done = TRUE,
                                  !.out = Some([cda |-> cda, back |-> back])]
    /\ last_op' = <<"round_trip">>
    /\ UNCHANGED <<calc_vars, pw, env_vars, hist_vars, msgbox, eval_vars, ven_vars, nav_vars>>

NextTrip == ApplyRoundTrip

SpecTrip == InitTrip /\ [][NextTrip]_vars

\* C22: for mdot > 0, rho > 0 and P_high > P_low the CdA is computed, the
\* set pressure computed from it with the manifold at P_low is P_high, and
\* the pressure drop P_set - P_manifold is P_high - P_low.
C22_RoundTrip ==
    (/\ probe.done
     /\ FLt(Zero, probe.w.mdot) /\ FLt(Zero, probe.w.rho)
     /\ FLt(probe.w.p_low, probe.w.p_high))
      => /\ Val(probe.out).cda.kind = "ok"
         /\ Val(probe.out).back.kind = "ok"
         /\ PSetPsi(Val(probe.out).back.value) = probe.w.p_high
         /\ FSub(PSetPsi(Val(probe.out).back.value), probe.w.p_low)
               = FSub(probe.w.p_high, probe.w.p_low)

\* The round trip from 1/2 kg/s, 3 PSI over 1 PSI and density 1000 went
\* through an irrational CdA and came back to 3 PSI.
C22_Witness ==
    /\ probe.done
    /\ probe.w = [mdot |-> <<1, 2>>, p_high |-> <<3, 1>>, p_low |-> <<1, 1>>,
                  rho |-> <<1000, 1>>]
    /\ IsQuot(Val(probe.out).cda.value)
    /\ Val(probe.out).back.kind = "ok"
    /\ PSetPsi(Val(probe.out).back.value) = <<3, 1>>

\* ------------------------------------------------------------------------
\* The set-pressure label on the example inputs
\* ------------------------------------------------------------------------

\* A fraction x >= 0 cut down, and raised, to dec decimal places.
FloorTo(x, dec) ==
    Fraction((x[1] \div x[2]) * Pow10(dec) + ((x[1] % x[2]) * Pow10(dec)) \div x[2],
             Pow10(dec))

CeilTo(x, dec) ==
    IF ((x[1] % x[2]) * Pow10(dec)) % x[2] = 0 THEN FloorTo(x, dec)
    ELSE FAdd(FloorTo(x, dec), <<1, Pow10(dec)>>)

\* p_set_psi with ((mdot / cda) ** 2) / rho for the pressure drop
BadPSetBounds(v) ==
    LET ratio == FDiv(v.mdot, v.cda)
        sq_lo == FMul(FloorTo(ratio, 0), FloorTo(ratio, 0))
        sq_hi == FMul(CeilTo(ratio, 0), CeilTo(ratio, 0))
        dp_lo == FloorTo(FDiv(sq_lo, v.rho), 2)
        dp_hi == CeilTo(FDiv(sq_hi, v.rho), 2)
        manifold_p_pa == FMul(v.manifold_p_psi, PSI_TO_PA)
    IN  [lo |-> FloorTo(FDiv(FAdd(dp_lo, manifold_p_pa), PSI_TO_PA), 3),
         hi |-> CeilTo(FDiv(FAdd(dp_hi, manifold_p_pa), PSI_TO_PA), 3)]

\* p_set_psi of _calculate_setpoint for positive fractions mdot, cda, rho
\* and manifold_p_psi >= 0, as two decimal fractions lo <= p_set_psi <= hi:
\* mdot / cda is enclosed between the integers around it, the pressure drop
\* to 2 decimal places and the result to 3, each step of the code applied
\* to the lower and to the upper bound.
PSetBounds(v) ==
    LET ratio == FDiv(v.mdot, v.cda)
        sq_lo == FMul(FloorTo(ratio, 0), FloorTo(ratio, 0))
        sq_hi == FMul(CeilTo(ratio, 0), CeilTo(ratio, 0))
        dp_lo == FloorTo(FDiv(sq_lo, FMul(<<2, 1>>, v.rho)), 2)
        dp_hi == CeilTo(FDiv(sq_hi, FMul(<<2, 1>>, v.rho)), 2)
        manifold_p_pa == FMul(v.manifold_p_psi, PSI_TO_PA)
    IN  [lo |-> FloorTo(FDiv(FAdd(dp_lo, manifold_p_pa), PSI_TO_PA), 3),
         hi |-> CeilTo(FDiv(FAdd(dp_hi, manifold_p_pa), PSI_TO_PA), 3)]

\* f"P_set = {p_set_psi:.1f} PSI": the numbers the label can show
SetpointLabel(v) ==
    [lo |-> RoundFrac(PSetBounds(v).lo, 1), hi |-> RoundFrac(PSetBounds(v).hi, 1)]

\* the inputs of the spec's example, and others around them
ExampleCdas == {<<1934, 10000000>>, <<1, 10000>>, <<2, 10000>>, Zero}

ExampleRates == {<<1, 2>>, <<1, 1>>, <<1, 4>>}

ExampleDensities == {<<1000, 1>>, <<1141, 1>>, <<789, 1>>}

ExampleManifolds == {Zero, <<15, 1>>, <<50, 1>>, <<500, 1>>}

InitExample ==
    /\ InitCalculator /\ pw = NoWindow /\ InitEnv /\ InitHist /\ InitLauncher
    /\ last_op = <<"init">> /\ msgbox = None /\ InitPanels /\ InitVenturi
    /\ probe \in {[w |-> [cda |-> c, mdot |-> m, rho |-> rho, manifold_p_psi |-> man],
                     done |-> FALSE, out |-> None] :
                       c \in ExampleCdas, m \in ExampleRates,
                       rho \in ExampleDensities, man \in ExampleManifolds}

\* _calculate_setpoint on the inputs: the error it shows, or its label
ApplySetpointLabel ==
    /\ ~probe.done
    /\ LET out == EvalSetpoint(NumText(probe.w.cda), NumText(probe.w.mdot),
                               NumText(probe.w.rho), NumText(probe.w.manifold_p_psi))
       IN  /\ probe' = [probe EXCEPT
                          !.done = TRUE,
                          !.out = IF out.kind = "ok"
                                  THEN Some(SetpointLabel(out.value)) ELSE None]
           /\ msgbox' = IF out.kind = "ok" THEN None ELSE Some(out.msg)
    /\ last_op' = <<"calculate_setpoint">>
    /\ UNCHANGED <<calc_vars, pw, env_vars, hist_vars, eval_vars, ven_vars, nav_vars>>

NextExample == ApplySetpointLabel

SpecExample == InitExample /\ [][NextExample]_vars

\* the example of the set-pressure formula has been calculated
ExampleCalculated ==
    /\ probe.done
    /\ probe.w = [cda |-> <<1934, 10000000>>, mdot |-> <<1, 2>>,
                  rho |-> <<1000, 1>>, manifold_p_psi |-> <<50, 1>>]

\* C23 as stated: with CdA = 1.934e-4, mdot = 0.5, rho = 1000 and a manifold
\* at 50 PSI the set pressure shown is about 500 PSI (within 10 percent).
C23_Original ==
    ExampleCalculated =>
      /\ probe.out # None
      /\ FLe(<<450, 1>>, Val(probe.out).lo)
      /\ FLe(Val(probe.out).hi, <<550, 1>>)

\* C23: with these inputs the set pressure shown is 50.5 PSI.
C23_ExampleGives50_5 ==
    ExampleCalculated =>
      /\ probe.out # None
      /\ Val(probe.out).lo = <<101, 2>>
      /\ Val(probe.out).hi = <<101, 2>>

\* The example was calculated without an error.
C23_Witness == ExampleCalculated /\ msgbox = None /\ probe.out # None

\* ------------------------------------------------------------------------
\* Clicks outside the selector's axes
\* ------------------------------------------------------------------------

\* a click outside the axes, or without an x-coordinate, is delivered
OutsideClick ==
    \E ev \in Events(pw) :
        /\ ev.inaxes = "none" \/ ev.xdata = None
        /\ PlotClick(ev)

\* C24: a click outside the axes or without an x-coordinate leaves the
\* selector as it was (start_time, end_time, click_count, the marker lines,
\* the labels and the Confirm button), and the calculator too.
C24_OutsideClickChangesNothing ==
    [][OutsideClick => /\ pw' = pw
                       /\ UNCHANGED <<calc_vars, env_vars>>]_vars

\* A click outside the axes arrived between the two clicks of a selection:
\* the selector still waits for the second click.
C24_Witness ==
    /\ Len(last_op) = 3 /\ last_op[1] = "click" /\ last_op[2] = "ignored"
    /\ last_op[3].inaxes = "none"
    /\ pw.win = "open" /\ pw.click_count = 1
    /\ pw.start_time # None /\ pw.end_time = None
    /\ pw.confirm_btn = "disabled"

\* ------------------------------------------------------------------------
\* The calculator's time window and rate
\* ------------------------------------------------------------------------

\* start_time and end_time are both unset, or both set with start <= end,
\* and no rate is defined while they are unset
TimeWindowInv ==
    /\ (start_time = None) = (end_time = None)
    /\ start_time # None => Val(start_time) <= Val(end_time)
    /\ calculated_mdot # None => start_time # None

\* C25: in the calculator start_time and end_time are always both unset or
\* both set with start_time <= end_time, a rate is never defined while they
\* are unset, and the three are written only by a selector Confirm that
\* delivers a window.
C25_WindowAndRateWrittenTogether ==
    /\ TimeWindowInv
    /\ [][/\ TimeWindowInv'
           /\ ~UNCHANGED <<start_time, end_time, calculated_mdot>> =>
                 /\ OnConfirm
                 /\ pw.start_time # None /\ pw.end_time # None
                 /\ start_time' = pw.start_time /\ end_time' = pw.end_time]_vars

\* After a Confirm delivered a window and a rate another file was loaded:
\* the window and the rate are still set.
C25_Witness ==
    /\ callbacks >= 1
    /\ start_time # None /\ end_time # None
    /\ Val(start_time) < Val(end_time)
    /\ calculated_mdot # None
    /\ last_op[1] = "load"

\* ------------------------------------------------------------------------
\* The two parsers of the time column
\* ------------------------------------------------------------------------

\* what the parser that was not applied returns on the same column
OtherParser ==
    IF last_op = <<"prepare_plot_data">> THEN GetNumericTimeData(probe.w)
    ELSE ParseTimeColumn(probe.w)

\* C26: on every time column the calculator's _get_numeric_time_data and
\* the selector's _prepare_plot_data yield the same time array and fail on
\* the same columns, so every window selects the same rows in both.
C26_ParsersAgree ==
    probe.done =>
      /\ probe.out = OtherParser
      /\ (probe.out = None) = (msgbox # None)
      /\ probe.out # None =>
            \A s, e \in -MaxX..MaxX :
               WindowMask(Val(probe.out), s, e) = WindowMask(Val(OtherParser), s, e)

\* The selector parsed timestamps in falling order; a window from 0 to 1
\* selects the last two rows.
C26_Witness ==
    /\ probe.done
    /\ last_op = <<"prepare_plot_data">>
    /\ probe.w = <<Ts(2), Ts(1), Ts(0)>>
    /\ probe.out = Some(<<Some(2), Some(1), Some(0)>>)
    /\ WindowMask(Val(GetNumericTimeData(probe.w)), 0, 1) = {2, 3}

\* ------------------------------------------------------------------------
\* The launcher and its tool windows
\* ------------------------------------------------------------------------

\* a Toplevel as its constructor leaves it: Tk maps it
NewToolWindow(id) == [id |-> id, state |-> "normal"]

\* winfo_exists()
WinfoExists(w) == w.state # "destroyed"

\* the tool window t is on the screen
ToolShown(t) == t \in DOMAIN child_windows /\ child_windows[t].state = "normal"

\* CdACalculatorWindow.__init__ and _build_ui, as assignments
NewCalculator ==
    /\ df' = None
    /\ time_combo' = Empty /\ pressure_combo' = Empty /\ weight_combo' = Empty
    /\ time_col' = None /\ pressure_col' = None /\ weight_col' = None
    /\ start_time' = None /\ end_time' = None /\ calculated_mdot' = None
    /\ labels' = [file |-> None, start_time |-> None, end_time |-> None,
                  mdot |-> "--"]
    /\ calculated_cda' = None
    /\ p_high_var' = Str("")
    /\ p_low_var' = NumText(<<147, 10>>)
    /\ rho_var' = NumText(<<1000, 1>>)
    /\ setpoint_cda_var' = Str("")
    /\ setpoint_mdot_var' = Str("")
    /\ setpoint_rho_var' = NumText(<<1000, 1>>)
    /\ manifold_p_var' = NumText(<<500, 1>>)
    /\ result_label' = None
    /\ result_units' = None
    /\ setpoint_result_label' = None
    /\ setpoint_result_pa' = None
    /\ dialog' = NoDialog

\* ERPLLauncher.show_launcher
ShowLauncher ==
    /\ current_page' = "launcher"
    /\ launcher_state' = "normal"

\* a launcher that constructs a window on every press
BadOpenTool(t) ==
    /\ launcher_state = "normal"
    /\ CalculatorAcceptsInput
    /\ launcher_state' = "withdrawn"
    /\ current_page' = t
    /\ child_windows' = [u \in DOMAIN child_windows \cup {t} |->
                            IF u = t THEN NewToolWindow(created + 1)
                            ELSE child_windows[u]]
    /\ created' = created + 1
    /\ IF t = "cda" THEN NewCalculator ELSE UNCHANGED <<calc_vars, eval_vars>>
    /\ last_op' = <<"open_tool", t>>
    /\ msgbox' = None
    /\ UNCHANGED <<pw, env_vars, hist_vars, probe, ven_vars>>

\* ERPLLauncher._open_cda_calculator and _open_draco_calculator: buttons of
\* the launcher window
OpenTool(t) ==
    /\ launcher_state = "normal"
    /\ CalculatorAcceptsInput
    /\ launcher_state' = "withdrawn"
    /\ current_page' = t
    /\ IF t \notin DOMAIN child_windows \/ ~WinfoExists(child_windows[t])
       THEN /\ child_windows' = [u \in DOMAIN child_windows \cup {t} |->
                                    IF u = t THEN NewToolWindow(created + 1)
                                    ELSE child_windows[u]]
            /\ created' = created + 1
            /\ IF t = "cda" THEN NewCalculator
               ELSE UNCHANGED <<calc_vars, eval_vars>>
       ELSE /\ child_windows' = [child_windows EXCEPT ![t].state = "normal"]
            /\ UNCHANGED <<created, calc_vars, eval_vars>>
    /\ last_op' = <<"open_tool", t>>
    /\ msgbox' = None
    /\ UNCHANGED <<pw, env_vars, hist_vars, probe, ven_vars>>

\* _go_home of a tool window: the Home button
ToolGoHome(t) ==
    /\ ToolShown(t)
    /\ CalculatorAcceptsInput
    /\ child_windows' = [child_windows EXCEPT ![t].state = "withdrawn"]
    /\ ShowLauncher
    /\ last_op' = <<"home", t>>
    /\ msgbox' = None
    /\ UNCHANGED <<calc_vars, pw, env_vars, hist_vars, probe, eval_vars,
                   ven_vars, created>>

\* _on_close of a tool window: WM_DELETE_WINDOW, which the window
\* manager sends whether or not a selector holds the grab
ToolOnClose(t) ==
    /\ ToolShown(t)
    /\ child_windows' = [child_windows EXCEPT ![t].state = "withdrawn"]
    /\ ShowLauncher
    /\ last_op' = <<"tool_close", t>>
    /\ msgbox' = None
    /\ UNCHANGED <<calc_vars, pw, env_vars, hist_vars, probe, eval_vars,
                   ven_vars, created>>

\* the calculator and its selector are used while the calculator is shown
NextNav ==
    \/ \E t \in Tools : OpenTool(t)
    \/ \E t \in Tools : ToolGoHome(t)
    \/ \E t \in Tools : ToolOnClose(t)
    \/ ToolShown("cda") /\ Step /\ UNCHANGED <<probe, eval_vars, ven_vars, nav_vars>>

SpecNav == Init /\ [][NextNav]_vars

\* the windows of the launcher and its tools that are on the screen
VisibleWindows ==
    {t \in DOMAIN child_windows : child_windows[t].state = "normal"}
        \cup (IF launcher_state = "normal" THEN {"launcher"} ELSE {})

\* C27: current_page is "launcher" exactly when the launcher is shown,
\* exactly one of the launcher and the tool windows is visible, no tool
\* window is ever destroyed or constructed twice, and the calculator's
\* table, time window and results change only while it is the page shown.
C27_LauncherNavigation ==
    /\ (current_page = "launcher") = (launcher_state = "normal")
    /\ VisibleWindows = {current_page}
    /\ \A t \in DOMAIN child_windows : WinfoExists(child_windows[t])
    /\ created = Cardinality(DOMAIN child_windows)
    /\ [][/\ \A t \in DOMAIN child_windows :
                /\ t \in DOMAIN child_windows'
                /\ child_windows'[t].id = child_windows[t].id
           /\ (current_page # "cda" \/ current_page' # "cda") =>
                UNCHANGED <<calc_vars, eval_vars>>]_vars

\* The calculator was left through Home with a table loaded, a time window
\* confirmed and a rate stored, and is shown again: same window, same data.
C27_Witness ==
    /\ last_op = <<"open_tool", "cda">>
    /\ created = 2
    /\ child_windows["cda"] = NewToolWindow(1)
    /\ "draco" \in DOMAIN child_windows
    /\ df # None
    /\ start_time # None /\ end_time # None
    /\ calculated_mdot # None

\* ------------------------------------------------------------------------
\* The two-click average of the venturi plot
\* ------------------------------------------------------------------------

\* np.searchsorted(a, x): the bisection numpy runs, for the left side
RECURSIVE Bisect(_, _, _, _)
Bisect(a, x, lo, hi) ==
    IF lo >= hi THEN lo
    ELSE LET mid == lo + ((hi - lo) \div 2)
         IN  IF a[mid + 1].v < x THEN Bisect(a, x, mid + 1, hi)
             ELSE Bisect(a, x, lo, mid)

SearchSorted(a, x) == Bisect(a, x, 0, Len(a))

\* a column read as numbers is a float array; one holding any text is an
\* array of strings, which a float cannot be compared with
NumericTime(time) == \A i \in 1..Len(time) : time[i].k = "num"

\* the samples of mdot[idx1:idx2+1]
SliceRows(n, idx1, idx2) == {i \in 1..n : idx1 < i /\ i <= idx2 + 1}

\* on_click of the venturi plot; the y of a click is only drawn.  With two
\* points selected the handler clears the points and removes every line
\* after the two curves, the average line among them; avg_line.remove()
\* then raises ValueError, the line being removed already, and the handler
\* ends there.  The average is kept as the index range and the samples it
\* is the mean of (np.mean of no samples is nan).
VenturiOnClick(ev) ==
    /\ vw.win = "open"
    /\ vw.plot # None
    /\ LET p == Val(vw.plot)
           cleared == [p EXCEPT !.points = << >>, !.lines = 2]
           base == IF Len(p.points) = 2 THEN cleared ELSE p
           added == [base EXCEPT !.points = Append(@, ev.x), !.lines = @ + 1]
           x1 == Min(added.points[1], added.points[2])
           x2 == Max(added.points[1], added.points[2])
           idx1 == SearchSorted(p.time, x1)
           idx2 == SearchSorted(p.time, x2)
           avg == [x1 |-> x1, x2 |-> x2, idx1 |-> idx1, idx2 |-> idx2,
                   rows |-> SliceRows(p.n, idx1, idx2)]
       IN  IF ~ev.inaxes
           THEN /\ UNCHANGED vw
                /\ last_op' = <<"venturi_click", "outside">>
           ELSE IF Len(p.points) = 2 /\ p.avg_line # None
           THEN /\ vw' = [vw EXCEPT !.plot = Some(cleared)]
                /\ last_op' = <<"venturi_click", "ValueError">>
           ELSE IF Len(added.points) < 2
           THEN /\ vw' = [vw EXCEPT !.plot = Some(added)]
                /\ last_op' = <<"venturi_click", "point">>
           ELSE IF ~NumericTime(p.time)
           THEN /\ vw' = [vw EXCEPT !.plot = Some(added)]
                /\ last_op' = <<"venturi_click", "TypeError">>
           ELSE /\ vw' = [vw EXCEPT !.plot =
                              Some([added EXCEPT !.avg_line = Some(avg),
                                                 !.lines = @ + 1,
                                                 !.avg_label = Some(avg)])]
                /\ last_op' = <<"venturi_click", "average">>
    /\ msgbox' = None
    /\ UNCHANGED <<data_vars, ops, eval_vars, ctx, nav_vars>>

\* clicks outside the axes, and inside them from before the first to after
\* the last time value
ClickEvents ==
    {[inaxes |-> FALSE, x |-> 0]}
        \cup {[inaxes |-> TRUE, x |-> x] : x \in -1..(MaxX + 1)}

\* files whose time column holds rising or falling numbers or text
ClickTables ==
    {[columns |-> <<n_Time, n_P1, n_P2>>,
      rows |-> [i \in 1..Len(t) |-> <<t[i], Num(2), Num(1)>>]] :
        t \in SeqsUpTo({Num(x) : x \in X} \cup {Text}, MaxRows) \ {<< >>}}

\* a venturi window that has plotted one of the files
InitClicks ==
    /\ InitCalculator /\ pw = NoWindow /\ grab = None
    /\ InitHist /\ InitLauncher
    /\ last_op = <<"init">> /\ msgbox = None /\ InitPanels /\ probe = NoProbe
    /\ \E table \in ClickTables :
          /\ ctx = [df |-> Some(table), time_col |-> Some(n_Time)]
          /\ vw = PlottedVenturi([df |-> Some(table), time_col |-> Some(n_Time)])
    /\ figs = {-1} /\ handlers = {-1}

NextClicks == \E ev \in ClickEvents : VenturiOnClick(ev)

SpecClicks == InitClicks /\ [][NextClicks]_vars

\* a click inside the axes was handled in this step
InAxesClick ==
    /\ vw.plot # None
    /\ last_op'[1] = "venturi_click"
    /\ last_op'[2] # "outside"

\* C28: at most two points are selected; a click with two points selected
\* clears them, their markers and the average line and becomes the first
\* point of a new pair; an average is computed exactly when a second point
\* is added, from the smaller to the larger x.
C28_TwoClickAveraging ==
    /\ vw.plot # None => Len(Val(vw.plot).points) <= 2
    /\ [][InAxesClick =>
            LET p == Val(vw.plot)
                q == Val(vw'.plot)
            IN  /\ Len(p.points) = 2 =>
                      /\ Len(q.points) = 1
                      /\ q.lines = 3
                      /\ q.avg_line = None
                /\ (last_op'[2] = "average") = (Len(q.points) = 2)
                /\ last_op'[2] = "average" =>
                      /\ Val(q.avg_line).x1 = Min(q.points[1], q.points[2])
                      /\ Val(q.avg_line).x2 = Max(q.points[1], q.points[2])]_vars

\* C28: what holds of the points: never more than two, and on a numeric
\* time array an average from the smaller to the larger x exactly when the
\* second point is added.
C28_AtMostTwoPoints ==
    /\ vw.plot # None => Len(Val(vw.plot).points) <= 2
    /\ [][InAxesClick /\ NumericTime(Val(vw.plot).time) =>
            LET q == Val(vw'.plot)
            IN  /\ (last_op'[2] = "average") = (Len(q.points) = 2)
                /\ last_op'[2] = "average" =>
                      /\ Val(q.avg_line).x1 = Min(q.points[1], q.points[2])
                      /\ Val(q.avg_line).x2 = Max(q.points[1], q.points[2])]_vars

\* C29: the average displayed is the mean of at least one sample, taken
\* over an index range within the time array.
C29_AverageOfSamples ==
    vw.plot # None /\ Val(vw.plot).avg_label # None =>
        LET p == Val(vw.plot)
            avg == Val(p.avg_label)
        IN  /\ avg.idx1 \in 0..(p.n - 1)
            /\ avg.idx2 \in 0..(p.n - 1)
            /\ avg.rows # {}

\* C29: the mean is over no sample only when both clicks lie after the
\* last time value (on a rising time array), and both indices are at most
\* the length of the array.
C29_EmptyOnlyAfterLast ==
    vw.plot # None /\ Val(vw.plot).avg_label # None =>
        LET p == Val(vw.plot)
            avg == Val(p.avg_label)
        IN  /\ avg.idx1 \in 0..p.n /\ avg.idx2 \in 0..p.n
            /\ avg.idx1 <= avg.idx2 \/ \E i \in 1..(p.n - 1) : p.time[i].v > p.time[i + 1].v
            /\ (avg.rows = {}) = (avg.idx1 = p.n \/ avg.idx1 > avg.idx2)

\* ------------------------------------------------------------------------
\* The figures of the venturi window
\* ------------------------------------------------------------------------

\* C30: at most one figure of the venturi window is open, and at most one
\* click handler of its is connected, after any number of Calculate
\* actions.
C30_AtMostOneVenturiFigure ==
    /\ Cardinality({f \in figs : f < 0}) <= 1
    /\ Cardinality({h \in handlers : h < 0}) <= 1

====
